---- MODULE Spec2Model ----
(***************************************************************************)
(* HD44780 character LCD driver (dsabala/hd44780).                         *)
(*                                                                         *)
(* The driver is a sequential program that talks to the display only       *)
(* through the callbacks of its context.  The model threads a "machine"    *)
(* record m through one operator per C function: m holds the control pins, *)
(* the bus direction, the value driven on the data lines, the log of every *)
(* callback call made by the running operation (trace), the display chip   *)
(* on the other side of the bus, and the last value returned (ret).        *)
(* A public operation is one action: it runs the whole C function.         *)
(***************************************************************************)
EXTENDS Integers, Sequences, FiniteSets, TLC

(* ---- hd44780_ret_e ---- *)
HD44780_OK == 0
HD44780_INV_ARG == 1
HD44780_TIMEOUT == 2
HD44780_CUSTOM_CHARS_INV == 3
HD44780_CHAR_NOT_FOUND == 4

(* ---- hd44780_interface, hd44780_cursor, pins, pin states, directions ---- *)
INTERFACE_4BIT == 0
INTERFACE_8BIT == 1
CURSOR_OFF == 0
CURSOR_ON == 1
CURSOR_BLINK == 2
HD44780_PIN_RS == 0
HD44780_PIN_RW == 1
HD44780_PIN_E == 2
PIN_RESET == 0
PIN_SET == 1
GPIO_DIR_IN == 0
GPIO_DIR_OUT == 1

(* ---- configurable times of hd44780.h ---- *)
HD44780_TIMEOUT_MS == 100
HD44780_TIMEOUT_TICK_MS == 1
DELAY_INIT_SEQ_LONG_MS == 50
DELAY_INIT_SEQ_SHORT_MS == 10

(* ---- register addresses and bit fields ---- *)
REG_CLEAR == 1
REG_EM == 4
REG_EM_SHIFT_CURSOR == 0
REG_EM_INCREMENT == 2
REG_PWR_AND_CURSOR == 8
REG_CURSOR_BLINK == 1
REG_CURSOR_OFF == 0
REG_CURSOR_ON == 2
REG_DISPLAY_OFF == 0
REG_DISPLAY_ON == 4
REG_INTERFACE == 32
REG_FONT_SIZE_5X8 == 0
REG_TWO_LINES == 8
REG_4_BIT_BUS == 0
REG_8_BIT_BUS == 16
REG_CGRAM_ADDR_SET == 64
REG_DDRAM_ADDR_SET == 128

(* The largest glyph map s_upload_custom_chars accepts, and the number of
   bitmap rows hd44780_def_char writes. *)
MAX_CUSTOM_CHARS == 8
BITMAP_ROWS == 8

(* ---- C integer arithmetic on uint8_t ---- *)
RECURSIVE BitAnd(_, _)
BitAnd(a, b) ==
  IF a = 0 \/ b = 0 THEN 0
  ELSE (IF a % 2 = 1 /\ b % 2 = 1 THEN 1 ELSE 0) + 2 * BitAnd(a \div 2, b \div 2)

RECURSIVE BitOr(_, _)
BitOr(a, b) ==
  IF a = 0 THEN b
  ELSE IF b = 0 THEN a
  ELSE (IF a % 2 = 1 \/ b % 2 = 1 THEN 1 ELSE 0) + 2 * BitOr(a \div 2, b \div 2)

U8(x) == x % 256
Shl(x, k) == x * (2 ^ k)
Shr(x, k) == x \div (2 ^ k)


(***************************************************************************)
(* The display chip on the other side of the bus.  It is the environment   *)
(* of the driver: what an HD44780 does with the bytes it is sent, as far   *)
(* as the properties below need it (interface width and nibble phase,      *)
(* function set, display control, entry mode, address counter, CGRAM).     *)
(*   DL 1 = 8-bit interface, 0 = 4-bit; phase 1 = the high nibble of a     *)
(*   byte has been received and the low nibble is awaited; cg 1 = the      *)
(*   address counter ac selects CGRAM, 0 = DDRAM.                          *)
(***************************************************************************)
CGRAM_SIZE == 64
DDRAM_LINE_END_1 == 39
DDRAM_LINE_START_2 == 64
DDRAM_LINE_END_2 == 103
DDRAM_ONE_LINE_END == 79

ChipNextAddr(chip) ==
  IF chip.cg = 1
    THEN (IF chip.ID = 1 THEN (chip.ac + 1) % CGRAM_SIZE
          ELSE (chip.ac + CGRAM_SIZE - 1) % CGRAM_SIZE)
  ELSE IF chip.ID = 1
    THEN (IF chip.N = 1
            THEN (IF chip.ac = DDRAM_LINE_END_1 THEN DDRAM_LINE_START_2
                  ELSE IF chip.ac = DDRAM_LINE_END_2 THEN 0
                  ELSE (chip.ac + 1) % 128)
          ELSE (IF chip.ac = DDRAM_ONE_LINE_END THEN 0 ELSE (chip.ac + 1) % 128))
  ELSE (IF chip.N = 1
          THEN (IF chip.ac = 0 THEN DDRAM_LINE_END_2
                ELSE IF chip.ac = DDRAM_LINE_START_2 THEN DDRAM_LINE_END_1
                ELSE (chip.ac + 127) % 128)
        ELSE (IF chip.ac = 0 THEN DDRAM_ONE_LINE_END ELSE (chip.ac + 127) % 128))

(* One complete byte received with RW low: an instruction (rs = 0), decoded
   by its highest set bit, or a data write (rs = 1) to the RAM ac selects. *)
ChipExec(chip, rs, byte) ==
  IF rs = 1 THEN
    [chip EXCEPT !.ac = ChipNextAddr(chip),
                 !.cgram = IF chip.cg = 1
                             THEN [@ EXCEPT ![chip.ac % CGRAM_SIZE] = byte % 32]
                             ELSE @]
  ELSE IF byte >= 128 THEN [chip EXCEPT !.ac = byte % 128, !.cg = 0]
  ELSE IF byte >= 64 THEN [chip EXCEPT !.ac = byte % 64, !.cg = 1]
  ELSE IF byte >= 32 THEN
    [chip EXCEPT !.DL = (byte \div 16) % 2, !.N = (byte \div 8) % 2,
                 !.F = (byte \div 4) % 2]
  ELSE IF byte >= 16 THEN
    (IF (byte \div 8) % 2 = 1 THEN chip
     ELSE [chip EXCEPT !.ac =
             ChipNextAddr([chip EXCEPT !.ID = (byte \div 4) % 2])])
  ELSE IF byte >= 8 THEN
    [chip EXCEPT !.D = (byte \div 4) % 2, !.C = (byte \div 2) % 2, !.B = byte % 2]
  ELSE IF byte >= 4 THEN [chip EXCEPT !.ID = (byte \div 2) % 2, !.S = byte % 2]
  ELSE IF byte >= 2 THEN [chip EXCEPT !.ac = 0, !.cg = 0]
  ELSE IF byte = 1 THEN [chip EXCEPT !.ac = 0, !.cg = 0, !.ID = 1]
  ELSE chip

(* Falling edge of E with RW low.  In 8-bit mode the chip latches all eight
   data lines; with a 4-bit wiring D3..D0 are not connected and read as fl.
   In 4-bit mode it latches D7..D4, a byte being two latches. *)
ChipWrite(ctx, chip, rs, bus, fl) ==
  IF chip.DL = 1 THEN
    ChipExec([chip EXCEPT !.phase = 0], rs,
             IF ctx.interface = INTERFACE_8BIT THEN bus
             ELSE (bus \div 16) * 16 + fl)
  ELSE IF chip.phase = 0 THEN [chip EXCEPT !.phase = 1, !.hi = bus \div 16]
  ELSE ChipExec([chip EXCEPT !.phase = 0, !.hi = 0], rs,
                chip.hi * 16 + bus \div 16)

(* Falling edge of E with RW high: the end of a read cycle.  Reading the
   address and busy flag (rs = 0) changes nothing but the nibble phase. *)
ChipReadDone(chip, rs) ==
  IF chip.DL = 1 THEN chip
  ELSE [chip EXCEPT !.phase = 1 - chip.phase]

(* What the data lines carry while E and RW are high and RS is low: busy
   flag and address counter; in 4-bit mode one nibble per pulse on D7..D4.
   The lines the chip does not drive, or the wiring lacks, read as fl. *)
ChipReadBus(ctx, chip, bf, fl) ==
  LET byte == bf * 128 + chip.ac
      nib  == IF chip.DL = 0 /\ chip.phase = 1 THEN byte % 16 ELSE byte \div 16
  IN  IF chip.DL = 1 /\ ctx.interface = INTERFACE_8BIT THEN byte
      ELSE nib * 16 + fl

(***************************************************************************)
(* The callbacks of hd44780_ctx, as a recording mock (spec.md 9: "a second *)
(* mock/fake implementation for tests that records every pulse").  Every   *)
(* call is appended to m.trace with the state of the pins at the call.     *)
(***************************************************************************)
Event(m, cb, a, b) ==
  [cb |-> cb, a |-> a, b |-> b, RS |-> m.RS, RW |-> m.RW, E |-> m.E, dir |-> m.dir]

Log(m, cb, a, b) == [m EXCEPT !.trace = Append(@, Event(m, cb, a, b))]

cb_init_common(ctx, m) == Log(m, "init_common", 0, 0)

cb_set_bus_direction(ctx, m, d) ==
  [Log(m, "set_bus_direction", d, 0) EXCEPT !.dir = d]

cb_set_ctrl_pin_state(ctx, m, pin, state) ==
  LET l == Log(m, "set_ctrl_pin_state", pin, state)
  IN  IF pin = HD44780_PIN_RS THEN [l EXCEPT !.RS = state]
      ELSE IF pin = HD44780_PIN_RW THEN [l EXCEPT !.RW = state]
      ELSE IF m.E = PIN_SET /\ state = PIN_RESET
        THEN [l EXCEPT !.E = state,
                       !.chip = IF m.RW = PIN_RESET
                                  THEN ChipWrite(ctx, m.chip, m.RS, m.bus, m.fl)
                                  ELSE ChipReadDone(m.chip, m.RS)]
      ELSE [l EXCEPT !.E = state]

(* The busy flag the chip shows at the next read of it: set during the busy
   period of the run (the reads numbered busy.from .. busy.from + busy.len - 1,
   or every read from busy.from on when busy.stuck), m.bf otherwise. *)
BusyFlag(m) ==
  LET n == m.nread + 1
  IN  IF /\ m.busy.from # 0
         /\ m.busy.from <= n
         /\ (m.busy.stuck \/ n < m.busy.from + m.busy.len)
        THEN 1 ELSE m.bf

(* Whether the pulse under way carries the busy flag: every pulse of a chip
   in 8-bit mode, the first of each pair of a chip in 4-bit mode. *)
CarriesBusyFlag(chip) == chip.DL = 1 \/ chip.phase = 0

cb_read_bus(ctx, m) ==
  LET v == ChipReadBus(ctx, m.chip, BusyFlag(m), m.fl)
  IN  [Log(m, "read_bus", v, 0) EXCEPT
         !.ret = v,
         !.nread = IF CarriesBusyFlag(m.chip) THEN @ + 1 ELSE @]

cb_write_bus(ctx, m, data) == [Log(m, "write_bus", data, 0) EXCEPT !.bus = data]

cb_delay_ms(ctx, m, time_ms) == Log(m, "delay_ms", time_ms, 0)

(***************************************************************************)
(* Bus transport                                                           *)
(***************************************************************************)
(* Faulty variant of s_config_bus_as_input: RW raised before the lines are
   turned to inputs. *)
s_config_bus_as_input_rw_first(ctx, m) ==
  cb_set_bus_direction(ctx,
    cb_set_ctrl_pin_state(ctx, m, HD44780_PIN_RW, PIN_SET), GPIO_DIR_IN)

s_config_bus_as_input(ctx, m) ==
  cb_set_ctrl_pin_state(ctx, cb_set_bus_direction(ctx, m, GPIO_DIR_IN),
                        HD44780_PIN_RW, PIN_SET)

s_config_bus_as_output(ctx, m) ==
  cb_set_bus_direction(ctx,
    cb_set_ctrl_pin_state(ctx, m, HD44780_PIN_RW, PIN_RESET), GPIO_DIR_OUT)

s_read_operation(ctx, m) ==
  LET m1 == cb_set_ctrl_pin_state(ctx, m, HD44780_PIN_E, PIN_SET)
      m2 == cb_read_bus(ctx, m1)
      m3 == cb_set_ctrl_pin_state(ctx, m2, HD44780_PIN_E, PIN_RESET)
  IN  [m3 EXCEPT !.ret = m2.ret]

(* Faulty variant of read_lower_nibble: no second pulse. *)
read_lower_nibble_skipped(ctx, m) == m

(* The rest of s_read_byte once data holds the first read (m.ret). *)
read_lower_nibble(ctx, m) ==
  IF ctx.interface = INTERFACE_4BIT
    THEN [s_read_operation(ctx, m) EXCEPT !.ret = BitOr(m.ret, U8(Shr(@, 4)))]
    ELSE m

(* History of the run: the byte the last s_read_byte returned. *)
ReadByte(m) == [m EXCEPT !.data = m.ret]

s_read_byte(ctx, m) ==
  ReadByte(read_lower_nibble(ctx, s_read_operation(ctx, s_config_bus_as_input(ctx, m))))

s_read_address(ctx, m) ==
  s_read_byte(ctx, cb_set_ctrl_pin_state(ctx, m, HD44780_PIN_RS, PIN_RESET))

(***************************************************************************)
(* Busy wait                                                               *)
(***************************************************************************)
hd44780_is_busy(ctx, m) ==
  [s_read_address(ctx, m) EXCEPT !.ret = IF BitAnd(@, 128) # 0 THEN 1 ELSE 0]

(* Faulty variant of wait_polled: one more tick of sleep after the poll that
   read the flag clear. *)
wait_polled_sleeps(ctx, st, m) ==
  IF m.ret = 0
    THEN [st EXCEPT !.m = [cb_delay_ms(ctx, m, HD44780_TIMEOUT_TICK_MS)
                             EXCEPT !.ret = HD44780_OK],
                    !.ret = HD44780_OK, !.done = TRUE]
    ELSE [st EXCEPT !.m = cb_delay_ms(ctx, m, HD44780_TIMEOUT_TICK_MS),
                    !.timeout_ms = @ - HD44780_TIMEOUT_TICK_MS]

(* The body of the loop of the default strategy once hd44780_is_busy has
   answered (m.ret): leave the loop with OK, or sleep one tick. *)
wait_polled(ctx, st, m) ==
  IF m.ret = 0
    THEN [st EXCEPT !.m = [m EXCEPT !.ret = HD44780_OK], !.ret = HD44780_OK,
                    !.done = TRUE]
    ELSE [st EXCEPT !.m = cb_delay_ms(ctx, m, HD44780_TIMEOUT_TICK_MS),
                    !.timeout_ms = @ - HD44780_TIMEOUT_TICK_MS]

(* Faulty variant of wait_body: no poll once the time left has reached 0. *)
wait_body_exclusive(ctx, st) ==
  IF st.done THEN st
  ELSE IF 0 < st.timeout_ms THEN wait_polled(ctx, st, hd44780_is_busy(ctx, st.m))
  ELSE [st EXCEPT !.m = [@ EXCEPT !.ret = st.ret], !.done = TRUE]

(* One pass of the loop of the default strategy: the test of the loop
   condition and, if it holds, the body; if it fails, the return of ret.
   st holds the locals ret and timeout_ms (an int), the machine, and whether
   the loop has been left. *)
wait_body(ctx, st) ==
  IF st.done THEN st
  ELSE IF 0 <= st.timeout_ms THEN wait_polled(ctx, st, hd44780_is_busy(ctx, st.m))
  ELSE [st EXCEPT !.m = [@ EXCEPT !.ret = st.ret], !.done = TRUE]

(* n passes of the loop, one after the other, as long as the loop has not
   been left. *)
RECURSIVE wait_loop(_, _, _)
wait_loop(ctx, st, n) ==
  IF n <= 1 THEN wait_body(ctx, st)
  ELSE LET half == wait_loop(ctx, st, n \div 2)
       IN  IF half.done THEN half ELSE wait_loop(ctx, half, n - n \div 2)

(* The default strategy: poll the busy flag, one tick between polls.  The
   time left falls by one tick in every pass that does not leave the loop,
   so the loop is left within HD44780_TIMEOUT_MS / HD44780_TIMEOUT_TICK_MS + 2
   passes. *)
hd44780_wait_for_busy_flag_clear(ctx, m) ==
  wait_loop(ctx,
            [m |-> m, ret |-> HD44780_TIMEOUT, timeout_ms |-> HD44780_TIMEOUT_MS,
             done |-> FALSE],
            HD44780_TIMEOUT_MS \div HD44780_TIMEOUT_TICK_MS + 2).m

(* The test strategy: it touches no pin and reports OK, except at its
   failAt-th call of the running operation, where it reports failVal
   (failAt = 0: it never fails). *)
mock_wait_for_busy_flag_clear(ctx, m) ==
  [m EXCEPT !.ret = IF m.nwait + 1 = m.failAt THEN m.failVal ELSE HD44780_OK]

(* The record of a call through ctx->cb_wait_for_busy_flag_clear made on
   machine m, r the machine the strategy left: the call is logged with the
   value it returned, ahead of the callback calls the strategy made; failed
   remembers the first call of the run that did not report OK. *)
wait_recorded(m, r) ==
  [r EXCEPT !.trace = Log(m, "wait_for_busy_flag_clear", r.ret, 0).trace \o r.trace,
            !.nwait = @ + 1,
            !.failed = IF @ = 0 /\ r.ret # HD44780_OK THEN m.nwait + 1 ELSE @]

cb_wait_for_busy_flag_clear(ctx, m) ==
  wait_recorded(m,
    IF ctx.cb_wait_for_busy_flag_clear = "polling"
      THEN hd44780_wait_for_busy_flag_clear(ctx, [m EXCEPT !.trace = <<>>])
      ELSE mock_wait_for_busy_flag_clear(ctx, [m EXCEPT !.trace = <<>>]))

s_write_operation(ctx, m, data) ==
  LET m1 == s_config_bus_as_output(ctx, m)
      m2 == cb_set_ctrl_pin_state(ctx, m1, HD44780_PIN_E, PIN_SET)
      m3 == cb_write_bus(ctx, m2, data)
  IN  cb_set_ctrl_pin_state(ctx, m3, HD44780_PIN_E, PIN_RESET)

(* Faulty variant of s_write_byte: in 4-bit mode the low nibble sent first. *)
s_write_byte_low_first(ctx, m, data) ==
  IF ctx.interface = INTERFACE_8BIT
    THEN s_write_operation(ctx, m, data)
    ELSE s_write_operation(ctx, s_write_operation(ctx, m, U8(Shl(data, 4))), data)

s_write_byte(ctx, m, data) ==
  IF ctx.interface = INTERFACE_8BIT
    THEN s_write_operation(ctx, m, data)
    ELSE s_write_operation(ctx, s_write_operation(ctx, m, data), U8(Shl(data, 4)))

(***************************************************************************)
(* Command/data framing                                                    *)
(***************************************************************************)
(* Faulty variant of write_if_ready: register select left as the busy-wait
   left it. *)
write_if_ready_rs_kept(ctx, w, rs, data) ==
  IF w.ret = HD44780_OK THEN s_write_byte(ctx, w, data) ELSE w

(* The framed write after its busy-wait, which left machine w and its
   result in w.ret: register select rs and the byte, if the wait reported OK. *)
write_if_ready(ctx, w, rs, data) ==
  IF w.ret = HD44780_OK
    THEN s_write_byte(ctx, cb_set_ctrl_pin_state(ctx, w, HD44780_PIN_RS, rs), data)
    ELSE w

(* Faulty variant of write_if_ready: the busy-wait result is returned but
   not looked at before transmitting. *)
write_unchecked(ctx, w, rs, data) ==
  [s_write_byte(ctx, cb_set_ctrl_pin_state(ctx, w, HD44780_PIN_RS, rs), data)
     EXCEPT !.ret = w.ret]

(* Faulty variant of s_write_instruction: transmits whatever the busy-wait
   reported. *)
s_write_instruction_unchecked(ctx, m, instruction) ==
  write_unchecked(ctx, cb_wait_for_busy_flag_clear(ctx, m), PIN_RESET, instruction)

s_write_instruction(ctx, m, instruction) ==
  write_if_ready(ctx, cb_wait_for_busy_flag_clear(ctx, m), PIN_RESET, instruction)

(* Faulty variant of s_write_data: transmits whatever the busy-wait
   reported. *)
s_write_data_unchecked(ctx, m, data) ==
  write_unchecked(ctx, cb_wait_for_busy_flag_clear(ctx, m), PIN_SET, data)

s_write_data(ctx, m, data) ==
  write_if_ready(ctx, cb_wait_for_busy_flag_clear(ctx, m), PIN_SET, data)

s_set_ddram_addr(ctx, m, address) ==
  s_write_instruction(ctx, m, BitOr(REG_DDRAM_ADDR_SET, address))

s_set_cgram_addr(ctx, m, address) ==
  s_write_instruction(ctx, m, BitOr(REG_CGRAM_ADDR_SET, address))

(* Faulty variant of s_set_char_addr: the glyph index taken for the CGRAM
   address. *)
s_set_char_addr_unscaled(ctx, m, index) == s_set_cgram_addr(ctx, m, U8(index))

s_set_char_addr(ctx, m, index) == s_set_cgram_addr(ctx, m, U8(index * 8))


(***************************************************************************)
(* Custom glyph upload and lookup                                          *)
(***************************************************************************)
RECURSIVE def_char_loop(_, _, _, _)
def_char_loop(ctx, m, pattern, i) ==
  IF m.ret = HD44780_OK /\ i < BITMAP_ROWS
    THEN def_char_loop(ctx, s_write_data(ctx, m, pattern[i + 1]), pattern, i + 1)
    ELSE m

hd44780_def_char(ctx, m, index, pattern) ==
  def_char_loop(ctx, s_set_char_addr(ctx, m, index), pattern, 0)

RECURSIVE upload_loop(_, _, _)
upload_loop(ctx, m, i) ==
  IF i < ctx.custom_chars_map_len /\ m.ret = HD44780_OK
    THEN upload_loop(ctx,
           hd44780_def_char(ctx, m, i, ctx.custom_chars_map[i + 1].character_bitmap),
           i + 1)
    ELSE m

(* Faulty variants of s_upload_custom_chars: the limit off by one; the length
   checked only after the upload loop has run. *)
s_upload_custom_chars_limit9(ctx, m) ==
  IF ctx.custom_chars_map_len > MAX_CUSTOM_CHARS + 1
    THEN [m EXCEPT !.ret = HD44780_CUSTOM_CHARS_INV]
    ELSE upload_loop(ctx, [m EXCEPT !.ret = HD44780_OK], 0)

s_upload_custom_chars_late_check(ctx, m) ==
  LET u == upload_loop(ctx, [m EXCEPT !.ret = HD44780_OK], 0)
  IN  IF ctx.custom_chars_map_len > MAX_CUSTOM_CHARS /\ u.ret = HD44780_OK
        THEN [u EXCEPT !.ret = HD44780_CUSTOM_CHARS_INV]
        ELSE u

s_upload_custom_chars(ctx, m) ==
  IF ctx.custom_chars_map_len > MAX_CUSTOM_CHARS
    THEN [m EXCEPT !.ret = HD44780_CUSTOM_CHARS_INV]
    ELSE upload_loop(ctx, [m EXCEPT !.ret = HD44780_OK], 0)

(***************************************************************************)
(* Public operations                                                       *)
(***************************************************************************)
hd44780_clear(ctx, m) == s_write_instruction(ctx, m, REG_CLEAR)

(* Faulty variant of hd44780_display_off: the display-on bit left in the
   instruction. *)
hd44780_display_off_on_bit(ctx, m) ==
  s_write_instruction(ctx, m, BitOr(REG_PWR_AND_CURSOR, REG_DISPLAY_ON))

hd44780_display_off(ctx, m) ==
  s_write_instruction(ctx, m, BitOr(REG_PWR_AND_CURSOR, REG_DISPLAY_OFF))

(* Faulty variant of hd44780_disp_char: the glyph's CGRAM address written
   instead of its index. *)
hd44780_disp_char_cgram_address(ctx, m, index) ==
  s_write_data(ctx, m, U8(index * BITMAP_ROWS))

hd44780_disp_char(ctx, m, index) == s_write_data(ctx, m, index)

(* The lowest map index whose code point is utf_8_code; the map length when
   none is (the loop ran to its end: HD44780_CHAR_NOT_FOUND). *)
RECURSIVE find_loop(_, _, _)
find_loop(ctx, utf_8_code, i) ==
  IF i >= ctx.custom_chars_map_len THEN i
  ELSE IF utf_8_code = ctx.custom_chars_map[i + 1].utf_8_code THEN i
  ELSE find_loop(ctx, utf_8_code, i + 1)

s_find_character_by_code(ctx, utf_8_code) ==
  LET i == find_loop(ctx, utf_8_code, 0)
  IN  IF i < ctx.custom_chars_map_len
        THEN [ret |-> HD44780_OK, index |-> i]
        ELSE [ret |-> HD44780_CHAR_NOT_FOUND, index |-> 0]

(* The byte at text + i (i from 1); mem is the memory from the first byte of
   the text on, with its terminator. *)
TextByte(mem, i) == IF i <= Len(mem) THEN mem[i] ELSE 0

(* A plain char as the comparisons of hd44780_write_text see it: where char
   is a signed type the bytes from 0x80 on are negative. *)
CharValue(byte, char_signed) ==
  IF char_signed /\ byte >= 128 THEN byte - 256 ELSE byte

(* Faulty variant of IsPlainAscii: 0x7F left out. *)
IsPlainAscii_below_7f(byte, char_signed) == CharValue(byte, char_signed) < 127

(* The test "*text <= 0x7f" of hd44780_write_text. *)
IsPlainAscii(byte, char_signed) == CharValue(byte, char_signed) <= 127

(* The number of bytes of the sequence that a lead byte above 0x7F opens. *)
SequenceLength(lead) ==
  IF lead <= 223 THEN 2 ELSE IF lead <= 239 THEN 3 ELSE 4

(* The code point hd44780_write_text decodes from the sequence at text + i. *)
Codepoint(mem, i) ==
  LET b1 == TextByte(mem, i)
      b2 == TextByte(mem, i + 1)
      b3 == TextByte(mem, i + 2)
      b4 == TextByte(mem, i + 3)
  IN  IF SequenceLength(b1) = 2
        THEN BitOr(Shl(BitAnd(b1, 31), 6), BitAnd(b2, 63))
      ELSE IF SequenceLength(b1) = 3
        THEN BitOr(Shl(BitAnd(b1, 15), 12),
                   BitOr(Shl(BitAnd(b2, 63), 6), BitAnd(b3, 63)))
      ELSE BitOr(Shl(BitAnd(b1, 7), 18),
                 BitOr(Shl(BitAnd(b2, 63), 12),
                       BitOr(Shl(BitAnd(b3, 63), 6), BitAnd(b4, 63))))

(* The found branch: the address read, the slot index as data, the address
   set to the read address plus one; the results of the two writes are
   dropped, ret keeps the OK of the lookup. *)
write_text_glyph(ctx, m, index) ==
  LET m1 == s_read_address(ctx, m)
      m2 == hd44780_disp_char(ctx, m1, index)
      m3 == s_set_ddram_addr(ctx, m2, U8(m1.ret + 1))
  IN  [m3 EXCEPT !.ret = HD44780_OK]

(* History of the run: the highest position of the text read so far, and the
   code points looked up in the glyph map. *)
Read(m, i) == [m EXCEPT !.read = IF i > @ THEN i ELSE @]

Looked(m, codepoint) == [m EXCEPT !.looked = Append(@, codepoint)]

(* The while loop of hd44780_write_text from text + i on: the loop test reads
   *text only if ret is OK; a multi-byte sequence is read to its last byte.
   The result is the machine and the position the loop stopped at. *)
RECURSIVE write_text_loop(_, _, _, _, _)
write_text_loop(ctx, m, mem, i, char_signed) ==
  IF m.ret # HD44780_OK THEN [m |-> m, i |-> i]
  ELSE IF TextByte(mem, i) = 0 THEN [m |-> Read(m, i), i |-> i]
  ELSE LET c == TextByte(mem, i)
       IN  IF IsPlainAscii(c, char_signed)
             THEN write_text_loop(ctx, s_write_data(ctx, Read(m, i), c), mem, i + 1,
                                  char_signed)
             ELSE LET codepoint == Codepoint(mem, i)
                      found == s_find_character_by_code(ctx, codepoint)
                      next  == i + SequenceLength(c)
                  IN  IF found.ret = HD44780_OK
                        THEN write_text_loop(ctx,
                               write_text_glyph(ctx, Looked(Read(m, next - 1), codepoint),
                                                found.index),
                               mem, next, char_signed)
                        ELSE write_text_loop(ctx,
                               [Looked(Read(m, next - 1), codepoint)
                                  EXCEPT !.ret = found.ret],
                               mem, next, char_signed)

hd44780_write_text(ctx, m, mem, char_signed) ==
  write_text_loop(ctx, [m EXCEPT !.ret = HD44780_OK], mem, 1, char_signed).m

(* Faulty variant of RowOffset: the 4 x 20 layout hard-coded. *)
RowOffset_fixed20(ctx, row) ==
  IF row = 1 THEN 64
  ELSE IF row = 2 THEN 20
  ELSE IF row = 3 THEN 64 + 20
  ELSE 0

(* Faulty variant of RowOffset: row 3 placed on row 1. *)
RowOffset_row3_on_row1(ctx, row) ==
  IF row = 1 \/ row = 3 THEN 64
  ELSE IF row = 2 THEN ctx.column_width
  ELSE 0

(* The row offset the switch of hd44780_set_pos adds to the column. *)
RowOffset(ctx, row) ==
  IF row = 1 THEN 64
  ELSE IF row = 2 THEN ctx.column_width
  ELSE IF row = 3 THEN 64 + ctx.column_width
  ELSE 0

(* Faulty variant of hd44780_set_pos: the column bound off by one. *)
hd44780_set_pos_column_off_by_one(ctx, m, row, column) ==
  IF ctx.column_width < column \/ ctx.number_of_lines <= row
    THEN [m EXCEPT !.ret = HD44780_INV_ARG]
    ELSE s_set_ddram_addr(ctx, m, U8(column + RowOffset(ctx, row)))

hd44780_set_pos(ctx, m, row, column) ==
  IF ctx.column_width <= column \/ ctx.number_of_lines <= row
    THEN [m EXCEPT !.ret = HD44780_INV_ARG]
    ELSE s_set_ddram_addr(ctx, m, U8(column + RowOffset(ctx, row)))

(* Faulty variant of hd44780_cursor_cfg: CURSOR_BLINK without the cursor-on
   bit. *)
hd44780_cursor_cfg_blink_only(ctx, m, cursor_cfg) ==
  LET on == BitOr(REG_PWR_AND_CURSOR, REG_DISPLAY_ON)
  IN  IF cursor_cfg = CURSOR_OFF
        THEN s_write_instruction(ctx, m, BitOr(on, REG_CURSOR_OFF))
      ELSE IF cursor_cfg = CURSOR_ON
        THEN s_write_instruction(ctx, m, BitOr(on, REG_CURSOR_ON))
      ELSE IF cursor_cfg = CURSOR_BLINK
        THEN s_write_instruction(ctx, m, BitOr(on, REG_CURSOR_BLINK))
      ELSE [m EXCEPT !.ret = HD44780_INV_ARG]

hd44780_cursor_cfg(ctx, m, cursor_cfg) ==
  LET on == BitOr(REG_PWR_AND_CURSOR, REG_DISPLAY_ON)
  IN  IF cursor_cfg = CURSOR_OFF
        THEN s_write_instruction(ctx, m, BitOr(on, REG_CURSOR_OFF))
      ELSE IF cursor_cfg = CURSOR_ON
        THEN s_write_instruction(ctx, m, BitOr(on, REG_CURSOR_ON))
      ELSE IF cursor_cfg = CURSOR_BLINK
        THEN s_write_instruction(ctx, m, BitOr(on, BitOr(REG_CURSOR_ON, REG_CURSOR_BLINK)))
      ELSE [m EXCEPT !.ret = HD44780_INV_ARG]

(* Faulty variant of init_repeat_loop: the pattern repeated once instead of twice. *)
RECURSIVE init_repeat_loop_once(_, _, _)
init_repeat_loop_once(ctx, m, i) ==
  IF i < 1
    THEN init_repeat_loop_once(ctx,
           cb_delay_ms(ctx,
             s_write_operation(ctx, m, BitOr(REG_INTERFACE, REG_8_BIT_BUS)),
             DELAY_INIT_SEQ_SHORT_MS),
           i + 1)
    ELSE m

(* hd44780_init, the loop "for (i = 0; i < 2; i++)": the 8-bit interface
   pattern again, each time followed by the short delay. *)
RECURSIVE init_repeat_loop(_, _, _)
init_repeat_loop(ctx, m, i) ==
  IF i < 2
    THEN init_repeat_loop(ctx,
           cb_delay_ms(ctx,
             s_write_operation(ctx, m, BitOr(REG_INTERFACE, REG_8_BIT_BUS)),
             DELAY_INIT_SEQ_SHORT_MS),
           i + 1)
    ELSE m

(* Faulty variants of init_reset_sequence: RS driven low before cb_init_common has
   set the pins up; the 8-bit interface pattern never sent. *)
init_reset_sequence_common_late(ctx, m) ==
  LET m0 == cb_init_common(ctx, cb_set_ctrl_pin_state(ctx, m, HD44780_PIN_RS, PIN_RESET))
      m1 == cb_delay_ms(ctx,
              s_write_operation(ctx, m0, BitOr(REG_INTERFACE, REG_8_BIT_BUS)),
              DELAY_INIT_SEQ_LONG_MS)
  IN  init_repeat_loop(ctx, m1, 0)

init_reset_sequence_none(ctx, m) ==
  cb_set_ctrl_pin_state(ctx, cb_init_common(ctx, m), HD44780_PIN_RS, PIN_RESET)

(* hd44780_init up to the end of that loop. *)
init_reset_sequence(ctx, m) ==
  LET m0 == cb_set_ctrl_pin_state(ctx, cb_init_common(ctx, m), HD44780_PIN_RS, PIN_RESET)
      m1 == cb_delay_ms(ctx,
              s_write_operation(ctx, m0, BitOr(REG_INTERFACE, REG_8_BIT_BUS)),
              DELAY_INIT_SEQ_LONG_MS)
  IN  init_repeat_loop(ctx, m1, 0)

(* hd44780_init, the mode select: "if (ctx->interface == INTERFACE_8BIT)". *)
init_mode_select(ctx, m) ==
  LET fs == BitOr(REG_INTERFACE, BitOr(REG_FONT_SIZE_5X8, REG_TWO_LINES))
  IN  IF ctx.interface = INTERFACE_8BIT
        THEN [s_write_operation(ctx, m, BitOr(fs, REG_8_BIT_BUS))
                EXCEPT !.ret = HD44780_OK]
        ELSE s_write_instruction(ctx,
               cb_delay_ms(ctx,
                 s_write_operation(ctx, m, BitOr(REG_INTERFACE, REG_4_BIT_BUS)),
                 DELAY_INIT_SEQ_SHORT_MS),
               BitOr(fs, REG_4_BIT_BUS))

(* Faulty variants of hd44780_init: the display cleared before it is turned off;
   the result of hd44780_clear not checked. *)
hd44780_init_clear_first(ctx, m) ==
  LET a == init_mode_select(ctx, init_reset_sequence(ctx, m))
      b == hd44780_clear(ctx, a)
      c == hd44780_display_off(ctx, b)
      d == s_write_instruction(ctx, c,
             BitOr(REG_EM, BitOr(REG_EM_SHIFT_CURSOR, REG_EM_INCREMENT)))
      e == hd44780_cursor_cfg(ctx, d, CURSOR_OFF)
  IN  IF a.ret # HD44780_OK THEN a
      ELSE IF b.ret # HD44780_OK THEN b
      ELSE IF c.ret # HD44780_OK THEN c
      ELSE IF d.ret # HD44780_OK THEN d
      ELSE IF e.ret # HD44780_OK THEN e
      ELSE s_upload_custom_chars(ctx, e)

hd44780_init_unchecked_clear(ctx, m) ==
  LET a == init_mode_select(ctx, init_reset_sequence(ctx, m))
      b == hd44780_display_off(ctx, a)
      c == hd44780_clear(ctx, b)
      d == s_write_instruction(ctx, c,
             BitOr(REG_EM, BitOr(REG_EM_SHIFT_CURSOR, REG_EM_INCREMENT)))
      e == hd44780_cursor_cfg(ctx, d, CURSOR_OFF)
  IN  IF a.ret # HD44780_OK THEN a
      ELSE IF b.ret # HD44780_OK THEN b
      ELSE IF d.ret # HD44780_OK THEN d
      ELSE IF e.ret # HD44780_OK THEN e
      ELSE s_upload_custom_chars(ctx, e)

hd44780_init(ctx, m) ==
  LET a == init_mode_select(ctx, init_reset_sequence(ctx, m))
      b == hd44780_display_off(ctx, a)
      c == hd44780_clear(ctx, b)
      d == s_write_instruction(ctx, c,
             BitOr(REG_EM, BitOr(REG_EM_SHIFT_CURSOR, REG_EM_INCREMENT)))
      e == hd44780_cursor_cfg(ctx, d, CURSOR_OFF)
  IN  IF a.ret # HD44780_OK THEN a
      ELSE IF b.ret # HD44780_OK THEN b
      ELSE IF c.ret # HD44780_OK THEN c
      ELSE IF d.ret # HD44780_OK THEN d
      ELSE IF e.ret # HD44780_OK THEN e
      ELSE s_upload_custom_chars(ctx, e)

(***************************************************************************)
(* State: the caller's context, the pins and data lines, the chip, and the *)
(* record of the last public operation: what was called (op), every        *)
(* callback call it made (trace) and what it returned (ret).  left is the  *)
(* number of operations the caller still issues; inits counts the          *)
(* hd44780_init calls, one directly after the other, in which every        *)
(* busy-wait reported OK.                                                  *)
(***************************************************************************)
VARIABLES ctx, hw, chip, op, trace, ret, left, inits

vars == <<ctx, hw, chip, op, trace, ret, left, inits>>

(* ---- bounds of the model ---- *)
MaxMapLen == 9
MaxFailAt == 8
MaxInits == 2
MaxOps == 3
MaxSmallMap == 1
MaxCursor == 3
MaxLines == 4
MaxTextMap == 3
MaxChars == 2
MaxColumn == 40
MaxBusyFrom == 2
MaxBusyPolls == 3

(* The largest value of a uint8_t argument. *)
UINT8_MAX == 255

FailVals == {HD44780_TIMEOUT, HD44780_INV_ARG}
FloatNibbles == {0, 15}
PriorNibbles == {0, 2, 3}

(* ---- the caller's glyph map: the example's code points first ---- *)
MapCode(i) ==
  IF i = 0 THEN 232 ELSE IF i = 1 THEN 8593 ELSE IF i = 2 THEN 127820 ELSE 230 + i

MapEntry(i) ==
  [utf_8_code |-> MapCode(i),
   character_bitmap |-> [r \in 1..BITMAP_ROWS |-> (7 * i + 3 * r + 1) % 32]]

Context(interface, lines, width, len) ==
  [interface |-> interface, number_of_lines |-> lines, column_width |-> width,
   custom_chars_map |-> [i \in 1..len |-> MapEntry(i - 1)],
   custom_chars_map_len |-> len,
   cb_wait_for_busy_flag_clear |-> "mock"]

(* ---- the chip before the first hd44780_init: after power-on reset, or
   left in any interface state by an earlier run of the program ---- *)
PowerOnChip ==
  [DL |-> 1, phase |-> 0, hi |-> 0, N |-> 0, F |-> 0, D |-> 0, C |-> 0, B |-> 0,
   ID |-> 1, S |-> 0, ac |-> 0, cg |-> 0, cgram |-> [a \in 0..(CGRAM_SIZE - 1) |-> 0]]

UsedChip ==
  [PowerOnChip EXCEPT !.N = 1, !.F = 1, !.D = 1, !.C = 1, !.B = 1, !.ID = 0,
                      !.S = 1, !.ac = 13, !.cg = 1]

PriorChips ==
  {[c EXCEPT !.DL = 1] : c \in {PowerOnChip, UsedChip}}
  \cup {[c EXCEPT !.DL = 0] : c \in {PowerOnChip, UsedChip}}
  \cup {[c EXCEPT !.DL = 0, !.phase = 1, !.hi = h] :
          c \in {PowerOnChip, UsedChip}, h \in PriorNibbles}

(* The chip is never busy on its own account. *)
NeverBusy == [from |-> 0, len |-> 0, stuck |-> FALSE]

NoOp ==
  [name |-> "none", a |-> 0, b |-> 0, failAt |-> 0, preDL |-> 0, prePhase |-> 0,
   prev |-> "none", prevRet |-> HD44780_OK,
   text |-> <<>>, char_signed |-> FALSE, bf |-> 0, preAC |-> 0, preCG |-> 0,
   busy |-> NeverBusy, tail |-> <<>>, read |-> 0, looked |-> <<>>, data |-> 0]

InitWith(contexts, chips, n) ==
  /\ ctx \in contexts
  /\ chip \in chips
  /\ hw \in {[RS |-> p, RW |-> p, E |-> PIN_RESET, dir |-> GPIO_DIR_IN, bus |-> 0] :
              p \in {PIN_RESET, PIN_SET}}
  /\ op = NoOp
  /\ trace = <<>>
  /\ ret = HD44780_OK
  /\ left = n
  /\ inits = 0

(* The machine a public operation starts on: the pins and the chip as they
   are, an empty call log, and the inputs of this run. *)
Machine(w, fl, bf) ==
  [RS |-> hw.RS, RW |-> hw.RW, E |-> hw.E, dir |-> hw.dir, bus |-> hw.bus,
   chip |-> chip, trace |-> <<>>, ret |-> HD44780_OK, nwait |-> 0, failed |-> 0,
   failAt |-> w.failAt, failVal |-> w.failVal, fl |-> fl, bf |-> bf,
   nread |-> 0, busy |-> w.busy, read |-> 0, looked |-> <<>>, data |-> 0]

(* The busy-wait call of the run that reported a non-OK value, 0 if none. *)
Failed(r) == r.failed

(* The operation has returned: r is the machine it leaves.  text, tail,
   char_signed and bf are the further inputs of the run: the string argument,
   the bytes that lie in memory after its terminator, whether the build's
   plain char is signed, and the busy flag the chip shows when the address is
   read. *)
Returned(name, a, b, text, tail, char_signed, bf, r) ==
  /\ hw' = [RS |-> r.RS, RW |-> r.RW, E |-> r.E, dir |-> r.dir, bus |-> r.bus]
  /\ chip' = r.chip
  /\ trace' = r.trace
  /\ ret' = r.ret
  /\ op' = [name |-> name, a |-> a, b |-> b, failAt |-> Failed(r),
            preDL |-> chip.DL, prePhase |-> chip.phase,
            prev |-> op.name, prevRet |-> ret,
            text |-> text, char_signed |-> char_signed, bf |-> bf,
            preAC |-> chip.ac, preCG |-> chip.cg, busy |-> r.busy,
            tail |-> tail, read |-> r.read, looked |-> r.looked, data |-> r.data]
  /\ left' = left - 1
  /\ inits' = IF name = "init" /\ Failed(r) = 0
                THEN (IF inits < MaxInits THEN inits + 1 ELSE inits)
                ELSE 0
  /\ UNCHANGED ctx

Done(name, a, b, r) == Returned(name, a, b, <<>>, <<>>, FALSE, 0, r)

(* The busy-wait behaviours of one operation with up to n framed steps: it
   never fails, or its k-th call returns the non-OK value v. *)
Waits(n) ==
  {[failAt |-> 0, failVal |-> HD44780_OK, busy |-> NeverBusy]}
  \cup {[failAt |-> k, failVal |-> v, busy |-> NeverBusy] : k \in 1..n, v \in FailVals}

(* The values the data lines D3..D0 can show where nothing drives them. *)
Floats == IF ctx.interface = INTERFACE_4BIT THEN FloatNibbles ELSE {0}

(* hd44780_init, the busy-wait behaviours drawn from W. *)
OpInit(W) ==
  /\ left > 0
  /\ \E w \in W, fl \in Floats :
       Done("init", 0, 0, hd44780_init(ctx, Machine(w, fl, 0)))

(* The caller initialises the display before it uses it. *)
InitCalled == op.name # "none"

OpClear(W) ==
  /\ left > 0 /\ InitCalled
  /\ \E w \in W, fl \in Floats :
       Done("clear", 0, 0, hd44780_clear(ctx, Machine(w, fl, 0)))

OpDisplayOff(W) ==
  /\ left > 0 /\ InitCalled
  /\ \E w \in W, fl \in Floats :
       Done("display_off", 0, 0,
            hd44780_display_off(ctx, Machine(w, fl, 0)))

OpSetPos(W, rows, columns) ==
  /\ left > 0 /\ InitCalled
  /\ \E w \in W, fl \in Floats, row \in rows, column \in columns :
       Done("set_pos", row, column,
            hd44780_set_pos(ctx, Machine(w, fl, 0), row, column))

OpCursorCfg(W, cfgs) ==
  /\ left > 0 /\ InitCalled
  /\ \E w \in W, fl \in Floats, cursor_cfg \in cfgs :
       Done("cursor_cfg", cursor_cfg, 0,
            hd44780_cursor_cfg(ctx, Machine(w, fl, 0), cursor_cfg))

OpDefChar(W, indexes, patterns) ==
  /\ left > 0 /\ InitCalled
  /\ \E w \in W, fl \in Floats, index \in indexes, p \in patterns :
       Done("def_char", index, p,
            hd44780_def_char(ctx, Machine(w, fl, 0), index,
                             MapEntry(p).character_bitmap))

OpDispChar(W, indexes) ==
  /\ left > 0 /\ InitCalled
  /\ \E w \in W, fl \in Floats, index \in indexes :
       Done("disp_char", index, 0,
            hd44780_disp_char(ctx, Machine(w, fl, 0), index))

(* hd44780_write_text on a terminated string that is followed in memory by
   one of tails, under both char types and both levels of the busy flag at an
   address read. *)
OpWriteTextIn(W, texts, tails) ==
  /\ left > 0 /\ InitCalled
  /\ \E w \in W, fl \in Floats, text \in texts, tail \in tails,
        char_signed \in BOOLEAN, bf \in {0, 1} :
       Returned("write_text", 0, 0, text, tail, char_signed, bf,
                hd44780_write_text(ctx, Machine(w, fl, bf),
                                   Append(text, 0) \o tail, char_signed))

OpWriteText(W, texts) == OpWriteTextIn(W, texts, {<<>>})

(* ---- initialisation: every map length, every prior chip state ---- *)
InitContexts ==
  {Context(i, 4, 20, n) : i \in {INTERFACE_4BIT, INTERFACE_8BIT}, n \in 0..MaxMapLen}

InitI == InitWith(InitContexts, PriorChips, MaxInits)

HdInit == OpInit(Waits(MaxFailAt))

NextI == HdInit

SpecI == InitI /\ [][NextI]_vars

(* ---- the caller's use of the display: sequences of public operations on
   the example's 4 x 20 display ---- *)
Contexts ==
  {Context(i, 4, 20, n) : i \in {INTERFACE_4BIT, INTERFACE_8BIT}, n \in 0..MaxSmallMap}

Init == InitWith(Contexts, {PowerOnChip}, MaxOps)

Rows == {1, 4}
Columns == {5, 20}
Slots == {1}

Initialise == OpInit(Waits(2))
Clear == OpClear(Waits(1))
DisplayOff == OpDisplayOff(Waits(1))
SetPos == OpSetPos(Waits(1), Rows, Columns)
CursorCfg == OpCursorCfg(Waits(1), 0..MaxCursor)
DefChar == OpDefChar(Waits(2), Slots, {MaxMapLen})
DispChar == OpDispChar(Waits(1), Slots)
WriteText == OpWriteText(Waits(0), {<<72>>, <<195, 168>>})

Next ==
  \/ Initialise
  \/ Clear
  \/ DisplayOff
  \/ SetPos
  \/ CursorCfg
  \/ DefChar
  \/ DispChar
  \/ WriteText

Spec == Init /\ [][Next]_vars

(* The first operation of a run: hd44780_init, every busy-wait reporting OK. *)
InitialiseFirst == op.name = "none" /\ OpInit(Waits(0))

(* ---- text rendering: strings of up to MaxChars characters, ASCII and
   multi-byte, on the example's glyph map and its prefixes ---- *)
(* U+00E8, U+2191 and U+1F34C (entries 0, 1, 2 of the example's map) and
   U+00E9, which is in no map. *)
Alphabet ==
  {<<1>>, <<72>>, <<105>>, <<127>>, <<195, 168>>, <<226, 134, 145>>,
   <<240, 159, 141, 140>>, <<195, 169>>}

RECURSIVE Strings(_)
Strings(n) ==
  IF n = 0 THEN {<<>>}
  ELSE Strings(n - 1) \cup {s \o c : s \in Strings(n - 1), c \in Alphabet}

InitT ==
  InitWith({Context(i, 4, 20, n) :
              i \in {INTERFACE_4BIT, INTERFACE_8BIT}, n \in 0..MaxTextMap},
           {PowerOnChip}, 2)

WriteTextAny == OpWriteText(Waits(2 * MaxChars), Strings(MaxChars))

NextT == InitialiseFirst \/ WriteTextAny

SpecT == InitT /\ [][NextT]_vars

(* ---- text rendering: strings that end inside a multi-byte sequence, and
   the bytes that happen to follow the terminator in memory ---- *)
Truncated ==
  {<<195>>, <<226>>, <<226, 134>>, <<240>>, <<240, 159>>, <<240, 159, 141>>,
   <<72, 195>>, <<72, 226>>, <<72>>}

(* What lies after the terminator is not the caller's: any bytes.  Each
   choice ends in enough zero bytes for the longest sequence to stop in it. *)
Tails == {<<0, 0, 0, 0>>, <<72, 0, 0, 0, 0>>, <<168, 145, 0, 0, 0, 0>>}

InitU ==
  InitWith({Context(i, 4, 20, n) :
              i \in {INTERFACE_4BIT, INTERFACE_8BIT}, n \in {0, MaxTextMap}},
           {PowerOnChip}, 2)

WriteTextTruncated == OpWriteTextIn(Waits(0), Truncated, Tails)

NextU == InitialiseFirst \/ WriteTextTruncated

SpecU == InitU /\ [][NextU]_vars

(* ---- glyphs: after the initialisation all 8 slots are defined, slot by
   slot and each with any of the bitmaps, then one glyph is displayed ---- *)
Bitmaps == {0, MAX_CUSTOM_CHARS}

InitG ==
  InitWith({Context(i, 4, 20, 0) : i \in {INTERFACE_4BIT, INTERFACE_8BIT}},
           {PowerOnChip}, MAX_CUSTOM_CHARS + 2)

DefineNextGlyph ==
  /\ left \in 2..(MAX_CUSTOM_CHARS + 1)
  /\ OpDefChar(Waits(0), {MAX_CUSTOM_CHARS + 1 - left}, Bitmaps)

DisplayGlyph == left = 1 /\ OpDispChar(Waits(0), 0..(MAX_CUSTOM_CHARS - 1))

NextG == InitialiseFirst \/ DefineNextGlyph \/ DisplayGlyph

SpecG == InitG /\ [][NextG]_vars

(* ---- the cursor at the ends of the lines: the example's 4 x 20 display,
   the cursor set to the first or the last column of a row, then one
   character rendered ---- *)
InitE ==
  InitWith({Context(i, 4, 20, MaxTextMap) : i \in {INTERFACE_4BIT, INTERFACE_8BIT}},
           {PowerOnChip}, 3)

SetPosLineEnds == OpSetPos(Waits(0), 0..(MaxLines - 1), {0, 19})

WriteTextOne == OpWriteText(Waits(0), {<<72>>, <<195, 168>>, <<226, 134, 145>>})

NextE == InitialiseFirst \/ SetPosLineEnds \/ WriteTextOne

SpecE == InitE /\ [][NextE]_vars

(* ---- one byte on the bus: every value of a uint8_t, after the
   initialisation of a display just powered on ---- *)
InitB ==
  InitWith({Context(i, 4, 20, 0) : i \in {INTERFACE_4BIT, INTERFACE_8BIT}},
           {PowerOnChip}, 2)

DispCharAny == OpDispChar(Waits(1), 0..UINT8_MAX)

NextB == InitialiseFirst \/ DispCharAny

SpecB == InitB /\ [][NextB]_vars

(* ---- one glyph defined: every value of the uint8_t index, after the
   initialisation of a display just powered on (CGRAM all zero) ---- *)
DefCharAny == OpDefChar(Waits(0), 0..UINT8_MAX, {0})

NextD == InitialiseFirst \/ DefCharAny

SpecD == InitB /\ [][NextD]_vars

(* ---- cursor positioning: every geometry, every row and column ---- *)
Widths == {8, 10, 16, 20, 40}

InitP ==
  InitWith({Context(i, l, w, 0) :
              i \in {INTERFACE_4BIT, INTERFACE_8BIT}, l \in 1..MaxLines, w \in Widths},
           {PowerOnChip}, 2)

SetPosAny == OpSetPos(Waits(1), 0..MaxLines, 0..MaxColumn)

NextP == InitialiseFirst \/ SetPosAny

SpecP == InitP /\ [][NextP]_vars

(* ---- two cursor positions, one after the other, on every geometry the
   header names: 1, 2 or 4 lines of 8, 10, 16, 20 or 40 columns ---- *)
DocumentedLines == {1, 2, 4}

InitQ ==
  InitWith({Context(INTERFACE_8BIT, l, w, 0) : l \in DocumentedLines, w \in Widths},
           {PowerOnChip}, 3)

SetPosTwice == OpSetPos(Waits(0), 0..(MaxLines - 1), 0..(MaxColumn - 1))

NextQ == InitialiseFirst \/ SetPosTwice

SpecQ == InitQ /\ [][NextQ]_vars

(* ---- the default busy-wait strategy in place: the busy flag of the chip
   decides every wait ---- *)
PolledContexts ==
  {[Context(i, 2, 16, n) EXCEPT !.cb_wait_for_busy_flag_clear = "polling"] :
     i \in {INTERFACE_4BIT, INTERFACE_8BIT}, n \in {MaxSmallMap}}

(* Busy periods: one poll long, as long as all the polls of one wait, and
   without end. *)
BusyLens == {1, HD44780_TIMEOUT_MS \div HD44780_TIMEOUT_TICK_MS + 1}

BusyPlans ==
  {NeverBusy}
  \cup {[from |-> f, len |-> l, stuck |-> FALSE] : f \in 1..MaxBusyFrom, l \in BusyLens}
  \cup {[from |-> 1, len |-> 0, stuck |-> TRUE]}

Polls == {[failAt |-> 0, failVal |-> HD44780_OK, busy |-> p] : p \in BusyPlans}

InitW == InitWith(PolledContexts, {PowerOnChip}, 2)

PolledInit == OpInit(Polls)
PolledClear == OpClear(Polls)
PolledDisplayOff == OpDisplayOff(Polls)
PolledSetPos == OpSetPos(Polls, {1, 3}, {16})
PolledCursorCfg == OpCursorCfg(Polls, {CURSOR_ON, MaxCursor})
PolledDefChar == OpDefChar(Polls, Slots, {MaxMapLen})
PolledDispChar == OpDispChar(Polls, Slots)
PolledWriteText == OpWriteText(Polls, {<<72>>, <<195, 168>>})

NextW ==
  \/ PolledInit
  \/ PolledClear
  \/ PolledDisplayOff
  \/ PolledSetPos
  \/ PolledCursorCfg
  \/ PolledDefChar
  \/ PolledDispChar
  \/ PolledWriteText

SpecW == InitW /\ [][NextW]_vars

(* ---- one busy-wait of the default strategy against busy periods of every
   length around the ceiling: the operations that are one framed write ---- *)
BusyPolls ==
  0..MaxBusyPolls
  \cup {HD44780_TIMEOUT_MS \div HD44780_TIMEOUT_TICK_MS + d : d \in {-1, 0, 1}}

BusyFor == {[failAt |-> 0, failVal |-> HD44780_OK,
             busy |-> [from |-> 1, len |-> k, stuck |-> FALSE]] : k \in BusyPolls}

InitK == InitWith(PolledContexts, {PowerOnChip}, 2)

WaitingClear == OpClear(BusyFor)
WaitingDisplayOff == OpDisplayOff(BusyFor)
WaitingCursorCfg == OpCursorCfg(BusyFor, {CURSOR_OFF, CURSOR_BLINK})
WaitingDispChar == OpDispChar(BusyFor, Slots)

NextK ==
  \/ InitialiseFirst
  \/ WaitingClear
  \/ WaitingDisplayOff
  \/ WaitingCursorCfg
  \/ WaitingDispChar

SpecK == InitK /\ [][NextK]_vars

(***************************************************************************)
(* Reading the call log                                                    *)
(***************************************************************************)
Call(cb, a, b) == <<cb, a, b>>

(* The calls of the last operation, without the pin snapshot. *)
Calls == [i \in 1..Len(trace) |-> Call(trace[i].cb, trace[i].a, trace[i].b)]

IsPrefix(p, s) == Len(p) <= Len(s) /\ SubSeq(s, 1, Len(p)) = p

Indices(cb) == {i \in 1..Len(trace) : trace[i].cb = cb}

WaitCall(r) == Call("wait_for_busy_flag_clear", r, 0)
DelayCall(ms) == Call("delay_ms", ms, 0)
PinCall(pin, state) == Call("set_ctrl_pin_state", pin, state)

(* One enable-pulsed write of v: RW low, bus out, E high, the value, E low. *)
PulseCalls(v) ==
  <<PinCall(HD44780_PIN_RW, PIN_RESET), Call("set_bus_direction", GPIO_DIR_OUT, 0),
    PinCall(HD44780_PIN_E, PIN_SET), Call("write_bus", v, 0),
    PinCall(HD44780_PIN_E, PIN_RESET)>>

(* One byte on the configured bus width. *)
ByteCalls(v) ==
  IF ctx.interface = INTERFACE_8BIT THEN PulseCalls(v)
  ELSE PulseCalls(v) \o PulseCalls((v * 16) % 256)

(* A framed write whose busy-wait reported OK. *)
FramedCalls(rs, v) ==
  <<WaitCall(HD44780_OK), PinCall(HD44780_PIN_RS, rs)>> \o ByteCalls(v)

(* Steps 1 to 3 of the initialisation, and the raw part of the mode select. *)
ResetCalls ==
  <<Call("init_common", 0, 0), PinCall(HD44780_PIN_RS, PIN_RESET)>>
  \o PulseCalls(48) \o <<DelayCall(DELAY_INIT_SEQ_LONG_MS)>>
  \o PulseCalls(48) \o <<DelayCall(DELAY_INIT_SEQ_SHORT_MS)>>
  \o PulseCalls(48) \o <<DelayCall(DELAY_INIT_SEQ_SHORT_MS)>>

RawModeSelectCalls ==
  IF ctx.interface = INTERFACE_8BIT THEN PulseCalls(56)
  ELSE PulseCalls(32) \o <<DelayCall(DELAY_INIT_SEQ_SHORT_MS)>>

(* The whole mode select when its busy-wait (4-bit mode only) reports OK. *)
ModeSelectCalls ==
  IF ctx.interface = INTERFACE_8BIT THEN RawModeSelectCalls
  ELSE RawModeSelectCalls \o FramedCalls(PIN_RESET, 40)

(* Display off, clear, entry mode, cursor off. *)
SetupCalls ==
  FramedCalls(PIN_RESET, 8) \o FramedCalls(PIN_RESET, 1)
  \o FramedCalls(PIN_RESET, 6) \o FramedCalls(PIN_RESET, 12)

(* The write_bus calls of the last operation, as indices of the log. *)
WriteIdx == SelectSeq([i \in 1..Len(trace) |-> i], LAMBDA i : trace[i].cb = "write_bus")

(* hd44780_init makes its first four write_bus calls raw, one pulse each. *)
RawWrites == IF op.name = "init" THEN 4 ELSE 0

(* The framed bytes of the last operation as the bus carries them: one
   write_bus call each in 8-bit mode, two in 4-bit mode (a trailing single
   pulse is no byte).  at: the log index of the byte's first pulse. *)
FramedWrites ==
  LET w == WriteIdx
      k == IF ctx.interface = INTERFACE_8BIT THEN 1 ELSE 2
      n == IF Len(w) > RawWrites THEN (Len(w) - RawWrites) \div k ELSE 0
  IN  [j \in 1..n |->
         LET i1 == w[RawWrites + k * (j - 1) + 1]
             i2 == w[RawWrites + k * j]
         IN  [rs |-> trace[i1].RS, at |-> i1,
              byte |-> IF k = 1 THEN trace[i1].a
                       ELSE (trace[i1].a \div 16) * 16 + trace[i2].a \div 16]]

(* The writes of a glyph upload: a CGRAM-address-set instruction or a data
   byte; as log indices. *)
UploadWrites ==
  {FramedWrites[j].at : j \in {j \in 1..Len(FramedWrites) :
     \/ FramedWrites[j].rs = PIN_SET
     \/ FramedWrites[j].byte \in 64..127}}

(* The first busy-wait call that reported a non-OK value, 0 if none did. *)
FirstFailedWait ==
  LET bad == {i \in Indices("wait_for_busy_flag_clear") : trace[i].a # HD44780_OK}
  IN  IF bad = {} THEN 0 ELSE CHOOSE i \in bad : \A j \in bad : i <= j

(* The log length of one byte on the configured bus width. *)
ByteLen == IF ctx.interface = INTERFACE_8BIT THEN 5 ELSE 10

(* The operations that are framed writes and nothing else. *)
FramedOps == {"clear", "display_off", "set_pos", "cursor_cfg", "disp_char", "def_char"}

(* The register-select level the framed bytes of an operation go out with. *)
FramedRS(name, j) ==
  IF name = "disp_char" \/ (name = "def_char" /\ j > 1) THEN PIN_SET ELSE PIN_RESET

(***************************************************************************)
(* C1: every framed write starts with exactly one busy-wait call, before   *)
(* anything else.  When the callback returns a non-OK value the operation  *)
(* returns that value and makes no call after it (no RS change, no         *)
(* write_bus).  When it returns OK the next call sets RS (low for an       *)
(* instruction, high for data) and the byte follows on the bus; what comes *)
(* after the byte is the busy-wait of the next framed write.               *)
(***************************************************************************)
C1_FramedWriteWaitsFirst ==
  /\ (op.name \in FramedOps) =>
       IF Len(trace) = 0
         THEN ret = HD44780_INV_ARG /\ op.name \in {"set_pos", "cursor_cfg"}
         ELSE trace[1].cb = "wait_for_busy_flag_clear"
  /\ (op.name \in FramedOps \cup {"init"}) =>
       \A i \in Indices("wait_for_busy_flag_clear") :
         IF trace[i].a # HD44780_OK
           THEN i = Len(trace) /\ ret = trace[i].a
           ELSE /\ Len(trace) >= i + 1 + ByteLen
                /\ Calls[i + 1][1] = "set_ctrl_pin_state"
                /\ Calls[i + 1][2] = HD44780_PIN_RS
                /\ SubSeq(Calls, i + 2, i + 1 + ByteLen) = ByteCalls(trace[i + 5].a)
                /\ (Len(trace) > i + 1 + ByteLen) =>
                     (trace[i + 2 + ByteLen].cb = "wait_for_busy_flag_clear")
  /\ (op.name \in FramedOps) =>
       \A j \in 1..Len(FramedWrites) :
         /\ FramedWrites[j].rs = FramedRS(op.name, j)
         /\ Calls[FramedWrites[j].at - 4] = PinCall(HD44780_PIN_RS, FramedRS(op.name, j))
         /\ Calls[FramedWrites[j].at - 5] = WaitCall(HD44780_OK)

C1_Witness ==
  /\ op.name = "def_char" /\ op.failAt = 2 /\ ret = HD44780_INV_ARG
  /\ Len(FramedWrites) = 1
  /\ trace[Len(trace)].cb = "wait_for_busy_flag_clear"

(***************************************************************************)
(* C2: for every byte value v in 0..255, one logical byte write (here the  *)
(* data byte of hd44780_disp_char) makes in 8-bit mode exactly one         *)
(* write_bus call, with v, and in 4-bit mode exactly two, first v and then *)
(* (v << 4) mod 256; every one of them between E set high just before and  *)
(* E set low just after, and E is raised once per write_bus call.          *)
(***************************************************************************)
C2_ByteWritePulses ==
  (op.name = "disp_char" /\ op.failAt = 0) =>
    LET w == WriteIdx
        v == op.a
        highs == {i \in Indices("set_ctrl_pin_state") :
                    trace[i].a = HD44780_PIN_E /\ trace[i].b = PIN_SET}
    IN  /\ IF ctx.interface = INTERFACE_8BIT
             THEN Len(w) = 1 /\ trace[w[1]].a = v
             ELSE /\ Len(w) = 2
                  /\ trace[w[1]].a = v
                  /\ trace[w[2]].a = (v * 16) % 256
        /\ Cardinality(highs) = Len(w)
        /\ \A k \in 1..Len(w) :
             /\ w[k] > 1 /\ w[k] < Len(trace)
             /\ Calls[w[k] - 1] = PinCall(HD44780_PIN_E, PIN_SET)
             /\ Calls[w[k] + 1] = PinCall(HD44780_PIN_E, PIN_RESET)
             /\ trace[w[k]].E = PIN_SET

C2_Witness ==
  /\ op.name = "disp_char" /\ op.failAt = 0 /\ op.a = 171
  /\ ctx.interface = INTERFACE_4BIT
  /\ Len(WriteIdx) = 2 /\ trace[WriteIdx[2]].a = 176

(***************************************************************************)
(* C3: every hd44780_init call starts with exactly one cb_init_common call,*)
(* then RS low, then raw 0x30 and the long delay, then twice raw 0x30 and  *)
(* the short delay, then the mode select: 8-bit mode raw 0x38 and no       *)
(* busy-wait; 4-bit mode raw 0x20, the short delay, then the framed        *)
(* instruction 0x28 (its busy-wait, and when that reports OK the write).   *)
(* No busy-wait call comes before the mode select.                         *)
(***************************************************************************)
C3_InitStartsWithResetSequence ==
  op.name = "init" =>
    LET raw == ResetCalls \o RawModeSelectCalls
        n   == Len(raw)
    IN  /\ Cardinality(Indices("init_common")) = 1
        /\ IsPrefix(raw, Calls)
        /\ \A i \in Indices("wait_for_busy_flag_clear") : i > n
        /\ (ctx.interface = INTERFACE_4BIT) =>
             (/\ Len(Calls) > n
              /\ Calls[n + 1][1] = "wait_for_busy_flag_clear"
              /\ (Calls[n + 1][2] = HD44780_OK) =>
                   IsPrefix(ResetCalls \o ModeSelectCalls, Calls))

C3_Witness ==
  /\ op.name = "init" /\ inits = MaxInits
  /\ ctx.interface = INTERFACE_4BIT /\ ret = HD44780_OK

(***************************************************************************)
(* C4: when every busy-wait reports OK, hd44780_init emits after the mode  *)
(* select exactly the framed instructions 0x08, 0x01, 0x06, 0x0C in this   *)
(* order, each after its own busy-wait, and every call of the glyph upload *)
(* comes after them.                                                       *)
(***************************************************************************)
C4_InitSetupInstructions ==
  (op.name = "init" /\ op.failAt = 0) =>
    LET head == ResetCalls \o ModeSelectCalls \o SetupCalls
    IN  /\ IsPrefix(head, Calls)
        /\ \A i \in UploadWrites : i > Len(head)
        /\ (ctx.custom_chars_map_len \in 1..MAX_CUSTOM_CHARS) =>
             IsPrefix(head \o FramedCalls(PIN_RESET, 64), Calls)
        /\ (ctx.custom_chars_map_len \notin 1..MAX_CUSTOM_CHARS) => (Calls = head)

C4_Witness ==
  /\ op.name = "init" /\ op.failAt = 0 /\ ret = HD44780_OK
  /\ ctx.custom_chars_map_len = 2 /\ UploadWrites # {}

(***************************************************************************)
(* C5: when a busy-wait of hd44780_init reports a non-OK value, init       *)
(* returns that value and makes no write_bus call and no busy-wait call    *)
(* after it.                                                               *)
(***************************************************************************)
C5_InitAbortsOnFailedWait ==
  (op.name = "init" /\ FirstFailedWait # 0) =>
    /\ ret = trace[FirstFailedWait].a
    /\ \A i \in Indices("write_bus") \cup Indices("wait_for_busy_flag_clear") :
         i <= FirstFailedWait

C5_Witness ==
  /\ op.name = "init" /\ op.failAt = 7 /\ ret = HD44780_TIMEOUT
  /\ FirstFailedWait = Len(trace) /\ UploadWrites # {}


(***************************************************************************)
(* C6: whatever interface state the chip was in before (8-bit; 4-bit and   *)
(* byte-aligned; 4-bit with one nibble of a byte received), when           *)
(* hd44780_init returns OK the chip is in the configured bus width,        *)
(* byte-aligned, with the 2-line 5x8 function set.                         *)
(***************************************************************************)
C6_InitReachesConfiguredMode ==
  (op.name = "init" /\ ret = HD44780_OK) =>
    /\ chip.DL = (IF ctx.interface = INTERFACE_8BIT THEN 1 ELSE 0)
    /\ chip.phase = 0
    /\ chip.N = 1
    /\ chip.F = 0

C6_Witness ==
  /\ op.name = "init" /\ ret = HD44780_OK
  /\ op.preDL = 0 /\ op.prePhase = 1
  /\ chip.DL = 0 /\ chip.phase = 0

(***************************************************************************)
(* C7: of two hd44780_init calls made one directly after the other on the  *)
(* same context, every busy-wait reporting OK, the second returns what the *)
(* first returned (OK when the glyph map has at most 8 entries, the        *)
(* context invariant), writes the same sequence of instruction and data    *)
(* bytes with the same RS, and leaves the chip in the state the first left.*)
(***************************************************************************)
BusWrites == [j \in 1..Len(WriteIdx) |-> <<trace[WriteIdx[j]].RS, trace[WriteIdx[j]].a>>]

C7_InitIdempotent ==
  [][(/\ op.name = "init" /\ op.failAt = 0
      /\ op'.name = "init" /\ op'.failAt = 0)
     => (/\ ret' = ret
         /\ (ctx.custom_chars_map_len <= MAX_CUSTOM_CHARS) => (ret' = HD44780_OK)
         /\ BusWrites' = BusWrites
         /\ chip' = chip)]_vars

C7_Witness ==
  /\ op.name = "init" /\ inits = 2 /\ ret = HD44780_OK
  /\ ctx.custom_chars_map_len = 3

(***************************************************************************)
(* C8 (as amended): when custom_chars_map_len is greater than 8,           *)
(* hd44780_init emits no CGRAM-address-set instruction and no data write,  *)
(* and it returns CUSTOM_CHARS_INV provided every busy-wait of the steps   *)
(* before the upload reported OK.                                          *)
(***************************************************************************)
C8_OversizedMapNoUpload ==
  (op.name = "init" /\ ctx.custom_chars_map_len > MAX_CUSTOM_CHARS) =>
    /\ UploadWrites = {}
    /\ \A i \in 1..Len(trace) : trace[i].cb = "write_bus" => trace[i].RS = PIN_RESET
    /\ (FirstFailedWait = 0) => (ret = HD44780_CUSTOM_CHARS_INV)

C8_Witness ==
  /\ op.name = "init" /\ ctx.custom_chars_map_len = MAX_CUSTOM_CHARS + 1
  /\ ret = HD44780_CUSTOM_CHARS_INV /\ Len(trace) > 0

(* C8 as stated: with more than 8 map entries hd44780_init returns
   CUSTOM_CHARS_INV (and emits no CGRAM-address-set and no data write). *)
C8_Original ==
  (op.name = "init" /\ ctx.custom_chars_map_len > MAX_CUSTOM_CHARS) =>
    (ret = HD44780_CUSTOM_CHARS_INV /\ UploadWrites = {})

(***************************************************************************)
(* C9 (as amended): the operation that rejects a glyph map of more than 8  *)
(* entries is hd44780_init, and it rejects the map before any glyph upload *)
(* but not before touching the hardware: with every busy-wait reporting OK *)
(* it makes exactly the callback calls of the reset sequence, the mode     *)
(* select and the four setup instructions, none after them, and returns    *)
(* CUSTOM_CHARS_INV.                                                       *)
(***************************************************************************)
C9_OversizedMapRejectedAfterSetup ==
  /\ (ret = HD44780_CUSTOM_CHARS_INV /\ FirstFailedWait = 0) =>
       (op.name = "init" /\ ctx.custom_chars_map_len > MAX_CUSTOM_CHARS)
  /\ (/\ op.name = "init" /\ FirstFailedWait = 0
      /\ ctx.custom_chars_map_len > MAX_CUSTOM_CHARS) =>
       /\ ret = HD44780_CUSTOM_CHARS_INV
       /\ Calls = ResetCalls \o ModeSelectCalls \o SetupCalls

C9_Witness ==
  /\ ret = HD44780_CUSTOM_CHARS_INV /\ op.name = "init"
  /\ Indices("write_bus") # {} /\ Indices("delay_ms") # {}

(* C9 as stated: the operation that rejects the oversized map has invoked no
   hardware callback before returning the error. *)
C9_Original ==
  (ret = HD44780_CUSTOM_CHARS_INV /\ op.name = "init") =>
    \A i \in 1..Len(trace) :
      trace[i].cb \notin {"set_ctrl_pin_state", "set_bus_direction", "read_bus",
                          "write_bus", "delay_ms"}


(* The row offsets: row 0: 0x00, row 1: 0x40, row 2: column_width, row 3:
   0x40 + column_width. *)
ClaimedOffset(row) ==
  IF row = 0 THEN 0
  ELSE IF row = 1 THEN 64
  ELSE IF row = 2 THEN ctx.column_width
  ELSE 64 + ctx.column_width

(* hd44780_set_pos with a row (one of the four that have an offset) and a
   column of the configured geometry, every busy-wait reporting OK. *)
SetPosInRange ==
  /\ op.name = "set_pos" /\ op.failAt = 0
  /\ op.a < ctx.number_of_lines /\ op.a <= 3
  /\ op.b < ctx.column_width

(* Exactly one instruction, a DDRAM-address-set, whose 7-bit address field
   is the row offset plus the column; OK returned. *)
SetPosAddressed ==
  /\ ret = HD44780_OK
  /\ Len(FramedWrites) = 1
  /\ FramedWrites[1].rs = PIN_RESET
  /\ FramedWrites[1].byte >= REG_DDRAM_ADDR_SET
  /\ FramedWrites[1].byte % REG_DDRAM_ADDR_SET = ClaimedOffset(op.a) + op.b
  /\ Len(trace) = 2 + ByteLen

(***************************************************************************)
(* C10: for every configured geometry, every row < number_of_lines and     *)
(* column < column_width whose row offset plus column fits the 7-bit       *)
(* address field (is at most 0x7F), with busy-wait OK, hd44780_set_pos     *)
(* returns OK and issues exactly one DDRAM-address-set instruction whose   *)
(* 7-bit address field equals the row offset (row 0: 0x00, row 1: 0x40,    *)
(* row 2: column_width, row 3: 0x40 + column_width) plus column.           *)
(***************************************************************************)
C10_SetPosAddress ==
  (SetPosInRange /\ ClaimedOffset(op.a) + op.b <= 127) => SetPosAddressed

C10_Witness ==
  /\ SetPosInRange /\ ctx.number_of_lines = 4 /\ ctx.column_width = 20
  /\ op.a = 3 /\ op.b = 19
  /\ ret = HD44780_OK /\ Len(FramedWrites) = 1 /\ FramedWrites[1].byte = 231

(* C10 as first stated: the same for every row and column of the geometry,
   the sums above 0x7F included. *)
C10_Original == SetPosInRange => SetPosAddressed

(***************************************************************************)
(* C11: for every row >= number_of_lines or column >= column_width,        *)
(* hd44780_set_pos returns INV_ARG and calls no callback at all: no        *)
(* busy-wait, no control pin, no bus direction, no read_bus, no write_bus; *)
(* the pins and the chip stay as they were.                                *)
(***************************************************************************)
C11_SetPosOutOfRange ==
  [][(/\ op'.name = "set_pos"
      /\ (op'.a >= ctx.number_of_lines \/ op'.b >= ctx.column_width))
     => (/\ ret' = HD44780_INV_ARG
         /\ trace' = <<>>
         /\ hw' = hw
         /\ chip' = chip)]_vars

C11_Witness ==
  /\ op.name = "set_pos" /\ op.a < ctx.number_of_lines /\ op.b = ctx.column_width
  /\ ret = HD44780_INV_ARG /\ trace = <<>>

(* The instruction byte of each cursor mode. *)
CursorInstruction(cursor_cfg) ==
  IF cursor_cfg = CURSOR_OFF THEN 12 ELSE IF cursor_cfg = CURSOR_ON THEN 14 ELSE 15

(***************************************************************************)
(* C12: hd44780_cursor_cfg issues exactly one framed instruction (one      *)
(* busy-wait and, when it reports OK, RS low and the byte): 0x0C for       *)
(* CURSOR_OFF, 0x0E for CURSOR_ON, 0x0F for CURSOR_BLINK, and returns what *)
(* the busy-wait reported; for any other value it returns INV_ARG and      *)
(* calls no callback.                                                      *)
(***************************************************************************)
C12_CursorCfgInstruction ==
  op.name = "cursor_cfg" =>
    IF op.a \in {CURSOR_OFF, CURSOR_ON, CURSOR_BLINK}
      THEN IF op.failAt = 0
             THEN /\ ret = HD44780_OK
                  /\ Calls = FramedCalls(PIN_RESET, CursorInstruction(op.a))
             ELSE /\ Len(trace) = 1
                  /\ Calls[1] = WaitCall(ret)
                  /\ ret # HD44780_OK
      ELSE ret = HD44780_INV_ARG /\ trace = <<>>

C12_Witness ==
  /\ op.name = "cursor_cfg" /\ op.a = CURSOR_BLINK /\ op.failAt = 0
  /\ Len(FramedWrites) = 1 /\ FramedWrites[1].byte = 15

Utf8Length(lead) ==
  IF lead < 128 THEN 1 ELSE IF lead < 224 THEN 2 ELSE IF lead < 240 THEN 3 ELSE 4

(* The characters of a well-formed text, each as its byte sequence. *)
RECURSIVE Utf8Chars(_)
Utf8Chars(text) ==
  IF text = <<>> THEN <<>>
  ELSE LET n == Utf8Length(text[1])
       IN  <<SubSeq(text, 1, n)>> \o Utf8Chars(SubSeq(text, n + 1, Len(text)))

(* The Unicode scalar value of one character (standard UTF-8 decoding). *)
Utf8Scalar(ch) ==
  IF Len(ch) = 1 THEN ch[1]
  ELSE IF Len(ch) = 2 THEN (ch[1] % 32) * 64 + (ch[2] % 64)
  ELSE IF Len(ch) = 3
    THEN (ch[1] % 16) * 4096 + (ch[2] % 64) * 64 + (ch[3] % 64)
  ELSE (ch[1] % 8) * 262144 + (ch[2] % 64) * 4096 + (ch[3] % 64) * 64 + (ch[4] % 64)

IsAscii(ch) == Len(ch) = 1

(* The glyph-map indices that hold the character's code point. *)
Slot(ch) ==
  {i \in 0..(ctx.custom_chars_map_len - 1) :
     ctx.custom_chars_map[i + 1].utf_8_code = Utf8Scalar(ch)}

IsMapped(ch) == ~IsAscii(ch) /\ Slot(ch) # {}

(* The busy-wait calls a character takes: one framed data write for an ASCII
   character; a data write and an address set for a mapped one. *)
RECURSIVE WaitsOf(_)
WaitsOf(chars) ==
  IF chars = <<>> THEN 0
  ELSE (IF IsAscii(chars[1]) THEN 1 ELSE 2) + WaitsOf(Tail(chars))

(* The framed data writes of a sequence of bytes. *)
RECURSIVE DataCalls(_)
DataCalls(bytes) ==
  IF bytes = <<>> THEN <<>>
  ELSE FramedCalls(PIN_SET, bytes[1]) \o DataCalls(Tail(bytes))

(***************************************************************************)
(* C14: for a string of n bytes that are all ASCII (1..0x7F), every        *)
(* busy-wait reporting OK, hd44780_write_text returns OK and its calls are *)
(* exactly n framed data writes (one busy-wait, RS high, the byte), in     *)
(* string order: no instruction write, no address read.                    *)
(***************************************************************************)
C14_AsciiTextWrites ==
  (/\ op.name = "write_text" /\ op.failAt = 0
   /\ \A j \in 1..Len(op.text) : op.text[j] \in 1..127) =>
    /\ ret = HD44780_OK
    /\ Calls = DataCalls(op.text)
    /\ Indices("read_bus") = {}
    /\ Cardinality(Indices("wait_for_busy_flag_clear")) = Len(op.text)
    /\ \A j \in 1..Len(FramedWrites) :
         FramedWrites[j].rs = PIN_SET /\ FramedWrites[j].byte = op.text[j]

C14_Witness ==
  /\ op.name = "write_text" /\ op.failAt = 0 /\ op.text = <<72, 105>>
  /\ ret = HD44780_OK /\ Len(FramedWrites) = 2

(***************************************************************************)
(* C17: when the busy-wait before the data write of an ASCII character at  *)
(* position k of the text reports a non-OK value (TIMEOUT), the characters *)
(* before it being ASCII or mapped, hd44780_write_text returns that value  *)
(* and the failed busy-wait is its last call: no write_bus for character k *)
(* or any later character.                                                 *)
(***************************************************************************)
C17_AsciiTimeoutAborts ==
  (op.name = "write_text" /\ op.failAt > 0) =>
    LET chars == Utf8Chars(op.text)
    IN  \A k \in 1..Len(chars) :
          (/\ IsAscii(chars[k])
           /\ \A j \in 1..(k - 1) : IsAscii(chars[j]) \/ IsMapped(chars[j])
           /\ op.failAt = WaitsOf(SubSeq(chars, 1, k - 1)) + 1) =>
            /\ ret = trace[Len(trace)].a /\ ret # HD44780_OK
            /\ FirstFailedWait = Len(trace)
            /\ \A i \in Indices("write_bus") : i < FirstFailedWait

C17_Witness ==
  /\ op.name = "write_text" /\ op.failAt = 3 /\ ~op.char_signed
  /\ op.text = <<195, 168, 72>> /\ ctx.custom_chars_map_len = 1
  /\ ret = HD44780_TIMEOUT /\ FirstFailedWait = Len(trace)

(* The lowest glyph-map index of a mapped character. *)
SlotIndex(ch) == CHOOSE i \in Slot(ch) : \A j \in Slot(ch) : i <= j

(* One enable-pulsed read that returned v. *)
ReadPulseCalls(v) ==
  <<PinCall(HD44780_PIN_E, PIN_SET), Call("read_bus", v, 0),
    PinCall(HD44780_PIN_E, PIN_RESET)>>

(* The values read_bus returned in the last operation, in call order. *)
ReadValues ==
  LET idx == SelectSeq([i \in 1..Len(trace) |-> i], LAMBDA i : trace[i].cb = "read_bus")
  IN  [j \in 1..Len(idx) |-> trace[idx[j]].a]

(* One address read (RS low) on the configured bus width, given the values
   its read_bus calls returned. *)
AddressReadCalls(values) ==
  <<PinCall(HD44780_PIN_RS, PIN_RESET), Call("set_bus_direction", GPIO_DIR_IN, 0),
    PinCall(HD44780_PIN_RW, PIN_SET)>>
  \o ReadPulseCalls(values[1])
  \o (IF ctx.interface = INTERFACE_8BIT THEN <<>> ELSE ReadPulseCalls(values[2]))

(* The byte an address read returns: the read_bus value in 8-bit mode; in
   4-bit mode the D7..D4 nibbles of the two reads, D3..D0 being ignored. *)
AddressRead(values) ==
  IF ctx.interface = INTERFACE_8BIT THEN values[1]
  ELSE (values[1] \div 16) * 16 + values[2] \div 16

(* The text is one multi-byte character that the glyph map holds. *)
OneMappedCharacter ==
  /\ op.name = "write_text" /\ op.failAt = 0
  /\ op.text # <<>> /\ Len(Utf8Chars(op.text)) = 1
  /\ IsMapped(Utf8Chars(op.text)[1])

(***************************************************************************)
(* C15: for a multi-byte UTF-8 character whose code point is at index i of *)
(* the glyph map, the busy-wait reporting OK without touching the bus,     *)
(* hd44780_write_text makes, in this order: exactly one address read (RS   *)
(* low) returning A, one framed data write of value i, and one framed      *)
(* DDRAM-address-set instruction carrying A + 1; and nothing else.         *)
(***************************************************************************)
C15_GlyphReadWriteRestore ==
  OneMappedCharacter =>
    LET n == IF ctx.interface = INTERFACE_8BIT THEN 1 ELSE 2
    IN  /\ Len(ReadValues) = n
        /\ Calls = AddressReadCalls(ReadValues)
                   \o FramedCalls(PIN_SET, SlotIndex(Utf8Chars(op.text)[1]))
                   \o FramedCalls(PIN_RESET,
                                  REG_DDRAM_ADDR_SET
                                  + ((AddressRead(ReadValues) + 1)
                                     % REG_DDRAM_ADDR_SET))

(* The first character of the text that is multi-byte and in no map entry,
   the characters before it being ASCII or mapped; 0 if there is none. *)
FirstUnmapped(chars) ==
  LET bad == {k \in 1..Len(chars) : ~IsAscii(chars[k]) /\ ~IsMapped(chars[k])}
  IN  IF bad = {} THEN 0 ELSE CHOOSE k \in bad : \A j \in bad : k <= j

(* The data bytes (RS high) the last operation put on the bus. *)
DataBytes ==
  LET d == SelectSeq(FramedWrites, LAMBDA w : w.rs = PIN_SET)
  IN  [j \in 1..Len(d) |-> d[j].byte]

(* The data byte that shows a character: itself, or its glyph's slot. *)
ShownAs(ch) == IF IsAscii(ch) THEN ch[1] ELSE SlotIndex(ch)

(***************************************************************************)
(* C16: when hd44780_write_text meets a multi-byte character whose code    *)
(* point is in no glyph-map entry (the busy-wait reporting OK), it returns *)
(* CHAR_NOT_FOUND; every character before it has been written, and there  *)
(* is no read_bus or write_bus call for that character or a later one.     *)
(***************************************************************************)
C16_UnmappedCharacterAborts ==
  (/\ op.name = "write_text" /\ op.failAt = 0
   /\ FirstUnmapped(Utf8Chars(op.text)) > 0) =>
    LET chars  == Utf8Chars(op.text)
        k      == FirstUnmapped(chars)
        glyphs == {j \in 1..(k - 1) : ~IsAscii(chars[j])}
        n      == IF ctx.interface = INTERFACE_8BIT THEN 1 ELSE 2
    IN  /\ ret = HD44780_CHAR_NOT_FOUND
        /\ DataBytes = [j \in 1..(k - 1) |-> ShownAs(chars[j])]
        /\ Len(FramedWrites) = (k - 1) + Cardinality(glyphs)
        /\ Len(ReadValues) = n * Cardinality(glyphs)

(***************************************************************************)
(* C18: when the busy-wait before the slot-index data write or before the  *)
(* DDRAM-address-set of a mapped multi-byte character reports a non-OK     *)
(* value (TIMEOUT), hd44780_write_text aborts immediately: the failed      *)
(* busy-wait is its last call, it returns that value and processes no      *)
(* later character.                                                        *)
(***************************************************************************)
C18_GlyphTimeoutAborts ==
  (op.name = "write_text" /\ op.failAt > 0) =>
    LET chars == Utf8Chars(op.text)
    IN  \A k \in 1..Len(chars) :
          (/\ IsMapped(chars[k])
           /\ \A j \in 1..(k - 1) : IsAscii(chars[j]) \/ IsMapped(chars[j])
           /\ op.failAt - WaitsOf(SubSeq(chars, 1, k - 1)) \in {1, 2}) =>
            /\ ret = trace[FirstFailedWait].a /\ ret # HD44780_OK
            /\ FirstFailedWait = Len(trace)

(***************************************************************************)
(* The default busy-wait strategy in the call log                          *)
(***************************************************************************)
Polling == ctx.cb_wait_for_busy_flag_clear = "polling"

(* The read pulses of one byte read, and the calls of one poll: RS low, bus
   in, RW high, and the read pulses. *)
ReadPulses == IF ctx.interface = INTERFACE_8BIT THEN 1 ELSE 2
PollLen == 3 + 3 * ReadPulses

(* A poll of the busy flag starts at log index j. *)
PollAt(j) ==
  /\ j >= 1 /\ j + PollLen - 1 <= Len(trace)
  /\ Calls[j] = PinCall(HD44780_PIN_RS, PIN_RESET)
  /\ Calls[j + 1] = Call("set_bus_direction", GPIO_DIR_IN, 0)
  /\ Calls[j + 2] = PinCall(HD44780_PIN_RW, PIN_SET)
  /\ \A p \in 0..(ReadPulses - 1) :
       /\ Calls[j + 3 + 3 * p] = PinCall(HD44780_PIN_E, PIN_SET)
       /\ trace[j + 4 + 3 * p].cb = "read_bus"
       /\ Calls[j + 5 + 3 * p] = PinCall(HD44780_PIN_E, PIN_RESET)

(* The busy flag as the poll at j read it: bit 7 of its first read. *)
PollBusy(j) == trace[j + 4].a >= 128

(* The poll at j read the flag set and was followed by a delay of one tick. *)
BusyPollAt(j) ==
  /\ PollAt(j) /\ PollBusy(j)
  /\ j + PollLen <= Len(trace)
  /\ Calls[j + PollLen] = DelayCall(HD44780_TIMEOUT_TICK_MS)

(* The busy-wait call at log index i made exactly n polls, each reading the
   flag set and each followed by one tick of delay, and nothing more. *)
ExactlyBusyPolls(i, n) ==
  /\ \A k \in 0..(n - 1) : BusyPollAt(i + 1 + k * (PollLen + 1))
  /\ ~PollAt(i + 1 + n * (PollLen + 1))

(* The polls the loop makes before it gives up: at 0, 1, ... HD44780_TIMEOUT_MS
   milliseconds of delay. *)
PollCeiling == HD44780_TIMEOUT_MS \div HD44780_TIMEOUT_TICK_MS + 1

(* The busy flag of the chip read set from the first read of the last
   operation on. *)
NeverClears == op.busy.stuck /\ op.busy.from = 1

(* The most callback calls one busy-wait makes: the call itself and all its
   polls, each with its delay. *)
WaitCalls == 1 + PollCeiling * (PollLen + 1)

(* The most framed writes the last operation makes, and the most calls it
   makes outside framed writes (hd44780_init: the raw part; hd44780_write_text:
   one address read per character). *)
FramedSteps ==
  IF op.name = "init" THEN 5 + (1 + BITMAP_ROWS) * ctx.custom_chars_map_len
  ELSE IF op.name = "def_char" THEN 1 + BITMAP_ROWS
  ELSE IF op.name = "write_text" THEN 2 * Len(op.text)
  ELSE 1

RawSteps ==
  IF op.name = "init" THEN Len(ResetCalls) + Len(RawModeSelectCalls)
  ELSE IF op.name = "write_text" THEN PollLen * Len(op.text)
  ELSE 0

CallBound == FramedSteps * (WaitCalls + 1 + ByteLen) + RawSteps

(* The last operation returned within its bound of callback calls. *)
ReturnsWithinBound == Len(trace) <= CallBound

(* C19: with the default busy-wait strategy every public operation returns
   after a bounded number of callback calls, whatever the busy flag of the
   chip does, and an operation that waited on a busy flag that never clears
   returns an error code. *)
C19_PolledOperationReturns ==
  (Polling /\ op.name # "none") =>
    /\ ReturnsWithinBound
    /\ (NeverClears /\ Indices("wait_for_busy_flag_clear") # {}) => ret # HD44780_OK

(* C20 (as the code has it): with the default busy-wait strategy, a busy-wait
   during which the busy flag never clears returns TIMEOUT, and a busy-wait
   returns TIMEOUT after exactly HD44780_TIMEOUT_MS / HD44780_TIMEOUT_TICK_MS
   + 1 = 101 polls of the flag, each followed by a delay of one tick. *)
C20_TimeoutAfterCeilingPolls ==
  Polling =>
    \A i \in Indices("wait_for_busy_flag_clear") :
      (NeverClears \/ trace[i].a = HD44780_TIMEOUT) =>
        /\ trace[i].a = HD44780_TIMEOUT
        /\ ExactlyBusyPolls(i, PollCeiling)

(* A waiting operation met a busy flag that never cleared. *)
C20_Witness ==
  /\ Polling /\ NeverClears
  /\ op.name = "clear"
  /\ ret = HD44780_TIMEOUT
  /\ Indices("wait_for_busy_flag_clear") = {1}
  /\ Cardinality(Indices("read_bus")) = PollCeiling * ReadPulses

(* C20 as stated: when the busy flag never clears, the default strategy
   returns TIMEOUT after exactly HD44780_TIMEOUT_MS / HD44780_TIMEOUT_TICK_MS
   = 100 polls. *)
C20_Original ==
  Polling =>
    \A i \in Indices("wait_for_busy_flag_clear") :
      NeverClears =>
        /\ trace[i].a = HD44780_TIMEOUT
        /\ ExactlyBusyPolls(i, HD44780_TIMEOUT_MS \div HD44780_TIMEOUT_TICK_MS)

(***************************************************************************)
(* C21: the default busy-wait strategy returns OK at the first poll that   *)
(* reads the busy flag clear: with the flag set for the first k polls and  *)
(* clear at poll k + 1, k below HD44780_TIMEOUT_MS / HD44780_TIMEOUT_TICK_MS, *)
(* it makes exactly k + 1 polls and exactly k delay calls of one tick, and *)
(* no delay after the clear poll.                                          *)
(***************************************************************************)
(* The polls of the first busy-wait of the last operation that met the flag
   set: the busy period of the chip starts with the first read. *)
BusyPollsMet == IF op.busy.from = 1 /\ ~op.busy.stuck THEN op.busy.len ELSE 0

(* The busy-wait call at log index i made k polls that read the flag set,
   each followed by one tick of delay, then one poll that read it clear, and
   went on without a delay or a further poll. *)
ClearAfterBusyPolls(i, k) ==
  LET last == i + 1 + k * (PollLen + 1)
  IN  /\ \A j \in 0..(k - 1) : BusyPollAt(i + 1 + j * (PollLen + 1))
      /\ PollAt(last) /\ ~PollBusy(last)
      /\ ~PollAt(last + PollLen)
      /\ last + PollLen <= Len(trace) => trace[last + PollLen].cb # "delay_ms"

C21_ReturnsAtFirstClearPoll ==
  (/\ Polling
   /\ op.name \in {"clear", "display_off", "cursor_cfg", "disp_char"}
   /\ BusyPollsMet < HD44780_TIMEOUT_MS \div HD44780_TIMEOUT_TICK_MS) =>
    /\ Indices("wait_for_busy_flag_clear") = {1}
    /\ trace[1].a = HD44780_OK
    /\ ClearAfterBusyPolls(1, BusyPollsMet)
    /\ Cardinality(Indices("delay_ms")) = BusyPollsMet
    /\ Cardinality(Indices("read_bus")) = (BusyPollsMet + 1) * ReadPulses

(* The flag was set for the first 99 polls of a busy-wait and clear at the
   100th. *)
C21_Witness ==
  /\ Polling /\ op.name = "clear" /\ ret = HD44780_OK
  /\ BusyPollsMet = HD44780_TIMEOUT_MS \div HD44780_TIMEOUT_TICK_MS - 1
  /\ Cardinality(Indices("delay_ms")) = BusyPollsMet

(***************************************************************************)
(* Decoding in the history of a run                                        *)
(***************************************************************************)
(* The characters hd44780_write_text takes off a well-formed text when every
   busy-wait reports OK: all of them, or those up to the first unmapped one. *)
TakenChars ==
  LET chars == Utf8Chars(op.text)
      k     == FirstUnmapped(chars)
  IN  IF k = 0 THEN chars ELSE SubSeq(chars, 1, k)

RECURSIVE ByteCount(_)
ByteCount(chars) ==
  IF chars = <<>> THEN 0 ELSE Len(chars[1]) + ByteCount(Tail(chars))

(* The scalar values of the multi-byte characters, in order. *)
Scalars(chars) ==
  LET multi == SelectSeq(chars, LAMBDA ch : ~IsAscii(ch))
  IN  [j \in 1..Len(multi) |-> Utf8Scalar(multi[j])]

(***************************************************************************)
(* C22: for every well-formed UTF-8 sequence of 2, 3 or 4 bytes            *)
(* hd44780_write_text consumes exactly that many bytes and looks up, in    *)
(* the glyph map, the Unicode scalar value the standard decoding gives; a  *)
(* byte in 0x01..0x7F is consumed alone and written unchanged.             *)
(***************************************************************************)
C22_DecodesWellFormedUtf8 ==
  (op.name = "write_text" /\ op.failAt = 0) =>
    LET chars == TakenChars
        shown == IF FirstUnmapped(chars) = 0
                   THEN chars ELSE SubSeq(chars, 1, Len(chars) - 1)
    IN  /\ op.looked = Scalars(chars)
        /\ op.read = ByteCount(chars) + (IF FirstUnmapped(chars) = 0 THEN 1 ELSE 0)
        /\ DataBytes = [j \in 1..Len(shown) |-> ShownAs(shown[j])]

(***************************************************************************)
(* C23: for every null-terminated input, also one that ends in a truncated *)
(* multi-byte sequence, hd44780_write_text never reads a byte located      *)
(* after the terminator.                                                   *)
(***************************************************************************)
C23_NeverReadsPastTerminator ==
  op.name = "write_text" => op.read <= Len(op.text) + 1

(***************************************************************************)
(* The glyph upload of hd44780_init                                        *)
(***************************************************************************)
(* The framed instructions hd44780_init writes before the upload: the
   function set in 4-bit mode, and 0x08, 0x01, 0x06, 0x0C. *)
SetupWrites == IF ctx.interface = INTERFACE_4BIT THEN 5 ELSE 4

(* The framed bytes of the upload, as register select and value. *)
UploadBytes ==
  LET f == FramedWrites
  IN  IF Len(f) <= SetupWrites THEN <<>>
      ELSE [j \in 1..(Len(f) - SetupWrites) |->
              <<f[SetupWrites + j].rs, f[SetupWrites + j].byte>>]

(* The framed bytes that define the glyphs of map entries i..len-1: for each
   the CGRAM address i * 8, then its 8 rows. *)
RECURSIVE GlyphBytes(_)
GlyphBytes(i) ==
  IF i >= ctx.custom_chars_map_len THEN <<>>
  ELSE <<<<PIN_RESET, REG_CGRAM_ADDR_SET + i * BITMAP_ROWS>>>>
       \o [r \in 1..BITMAP_ROWS |->
             <<PIN_SET, ctx.custom_chars_map[i + 1].character_bitmap[r]>>]
       \o GlyphBytes(i + 1)

(***************************************************************************)
(* C24: with the busy-wait reporting OK the glyph upload of hd44780_init   *)
(* handles the map entries in index order and emits for entry i one        *)
(* CGRAM-address-set instruction for address i * 8 and then the entry's 8  *)
(* bitmap bytes as framed data writes in row order; the first framed write *)
(* whose busy-wait fails ends the upload: no later byte or entry is        *)
(* written and that error is returned.                                     *)
(***************************************************************************)
C24_GlyphUploadOrder ==
  (op.name = "init" /\ ctx.custom_chars_map_len <= MAX_CUSTOM_CHARS) =>
    /\ (FirstFailedWait = 0) => (UploadBytes = GlyphBytes(0) /\ ret = HD44780_OK)
    /\ (op.failAt > SetupWrites) =>
         /\ UploadBytes = SubSeq(GlyphBytes(0), 1, Len(UploadBytes))
         /\ (Len(GlyphBytes(0)) >= op.failAt - SetupWrites) =>
              /\ Len(UploadBytes) = op.failAt - SetupWrites - 1
              /\ FirstFailedWait = Len(trace)
              /\ ret = trace[FirstFailedWait].a /\ ret # HD44780_OK

C24_Witness ==
  /\ op.name = "init" /\ ctx.custom_chars_map_len = 3
  /\ op.failAt = SetupWrites + 3 /\ ret = HD44780_TIMEOUT
  /\ Len(UploadBytes) = 2

(***************************************************************************)
(* C25: after init and after 8 glyph bitmaps have been defined, whatever   *)
(* they are, hd44780_disp_char(i) emits for each slot index i exactly one  *)
(* framed data write, and its byte is i: no bitmap byte is on the bus.     *)
(***************************************************************************)
C25_DispCharWritesSlotIndex ==
  (op.name = "disp_char" /\ op.prev = "def_char" /\ op.failAt = 0) =>
    /\ Calls = FramedCalls(PIN_SET, op.a)
    /\ Len(FramedWrites) = 1
    /\ FramedWrites[1].rs = PIN_SET /\ FramedWrites[1].byte = op.a
    /\ ret = HD44780_OK

C25_Witness ==
  /\ op.name = "disp_char" /\ op.prev = "def_char" /\ op.a = MAX_CUSTOM_CHARS - 1
  /\ \A i \in 0..(MAX_CUSTOM_CHARS - 1) : chip.cgram[i * BITMAP_ROWS + 1] # 0
  /\ Len(FramedWrites) = 1

(***************************************************************************)
(* C26: in 4-bit mode, the low nibble of each read_bus result being        *)
(* undefined, the byte a read returns is determined by the two high        *)
(* nibbles alone: its high nibble is the high nibble of the first read and *)
(* its low nibble the high nibble of the second read; in 8-bit mode the    *)
(* read is one pulse and returns the read_bus value unchanged.             *)
(***************************************************************************)
C26_ReadByteFromHighNibbles ==
  (OneMappedCharacter /\ ReadValues # <<>>) =>
    /\ Len(ReadValues) = (IF ctx.interface = INTERFACE_8BIT THEN 1 ELSE 2)
    /\ op.data = AddressRead(ReadValues)

(***************************************************************************)
(* C27: rendering a mapped glyph advances the cursor exactly as rendering  *)
(* any other character does: for every DDRAM address at which the glyph is *)
(* written, the chip's DDRAM address after hd44780_write_text has rendered *)
(* it equals the address the chip holds after one plain data write at that *)
(* address, also at the last cell of a line's address range.               *)
(***************************************************************************)
C27_GlyphAdvancesCursor ==
  (OneMappedCharacter /\ op.preCG = 0) =>
    /\ chip.cg = 0
    /\ chip.ac = ChipNextAddr([chip EXCEPT !.ac = op.preAC, !.cg = 0])

(***************************************************************************)
(* Busy-waits and bus transfers in the call log                            *)
(***************************************************************************)
(* The end of the raw preamble of hd44780_init in the log: its last raw
   write_bus call; 0 in other operations. *)
PreambleEnd ==
  IF op.name = "init" /\ Len(WriteIdx) >= RawWrites THEN WriteIdx[RawWrites] ELSE 0

(* The busy-wait calls and the bus pulses after the preamble, as log indices
   in call order. *)
BusEvents ==
  SelectSeq([i \in 1..Len(trace) |-> i],
            LAMBDA i : /\ i > PreambleEnd
                       /\ trace[i].cb \in {"wait_for_busy_flag_clear",
                                           "write_bus", "read_bus"})

WaitedOk(i) ==
  trace[i].cb = "wait_for_busy_flag_clear" /\ trace[i].a = HD44780_OK

(***************************************************************************)
(* C28: after the raw preamble of hd44780_init every bus transfer a public *)
(* operation issues, be it an instruction write, a data write or an        *)
(* address or data read, is preceded by a busy-wait that reported OK, with *)
(* no other bus transfer between that busy-wait and the transfer (a        *)
(* transfer being one pulse in 8-bit mode and two in 4-bit mode).          *)
(***************************************************************************)
C28_TransfersFollowBusyWait ==
  LET b == BusEvents
  IN  \A j \in 1..Len(b) :
        (trace[b[j]].cb # "wait_for_busy_flag_clear") =>
          /\ j > 1
          /\ \/ WaitedOk(b[j - 1])
             \/ /\ ctx.interface = INTERFACE_4BIT /\ j > 2
                /\ trace[b[j - 1]].cb = trace[b[j]].cb
                /\ WaitedOk(b[j - 2])

(***************************************************************************)
(* Register select at the pulses of the framed bytes                       *)
(***************************************************************************)
(* The register select of the framed bytes hd44780_write_text sends for the
   characters of a text: data for an ASCII character, data and then the
   address-set instruction for a mapped one; nothing from the first unmapped
   character on. *)
RECURSIVE TextRS(_)
TextRS(chars) ==
  IF chars = <<>> THEN <<>>
  ELSE IF IsAscii(chars[1]) THEN <<PIN_SET>> \o TextRS(Tail(chars))
  ELSE IF IsMapped(chars[1]) THEN <<PIN_SET, PIN_RESET>> \o TextRS(Tail(chars))
  ELSE <<>>

(* The register select the j-th framed byte of the last operation is for:
   low for an instruction, high for data. *)
ExpectedRS(j) ==
  IF op.name = "init"
    THEN (IF j <= SetupWrites \/ (j - SetupWrites - 1) % (BITMAP_ROWS + 1) = 0
            THEN PIN_RESET ELSE PIN_SET)
  ELSE IF op.name = "write_text"
    THEN (IF op.char_signed THEN PIN_SET ELSE TextRS(Utf8Chars(op.text))[j])
  ELSE FramedRS(op.name, j)

(* A busy-flag poll that found the chip busy precedes log index i. *)
PolledBusyBefore(i) ==
  \E r \in Indices("read_bus") : r < i /\ trace[r].RS = PIN_RESET /\ trace[r].a >= 128

(***************************************************************************)
(* C29: at every write_bus call made for a framed instruction RS is low,   *)
(* and at every write_bus call made for a framed data byte RS is high; in  *)
(* 4-bit mode at both nibble pulses of the byte, also when the busy-wait   *)
(* callback has driven RS low while polling the busy flag just before.     *)
(***************************************************************************)
C29_RegisterSelectAtWrites ==
  (op.name # "write_text" \/ FirstFailedWait = 0) =>
    LET w == WriteIdx
        k == IF ctx.interface = INTERFACE_8BIT THEN 1 ELSE 2
    IN  \A p \in 1..(Len(w) - RawWrites) :
          trace[w[RawWrites + p]].RS = ExpectedRS((p - 1) \div k + 1)

C29_Witness ==
  /\ op.name = "def_char" /\ ctx.interface = INTERFACE_4BIT /\ Polling
  /\ ret = HD44780_OK /\ Len(WriteIdx) = 2 * (BITMAP_ROWS + 1)
  /\ PolledBusyBefore(WriteIdx[3])
  /\ trace[WriteIdx[3]].RS = PIN_SET /\ trace[WriteIdx[4]].RS = PIN_SET

(***************************************************************************)
(* Who drives the data lines                                               *)
(***************************************************************************)
(* Both sides drive the data lines: the controller's lines are outputs while
   RW tells the chip to drive them too. *)
Contention(pins) == pins.dir = GPIO_DIR_OUT /\ pins.RW = PIN_SET

(***************************************************************************)
(* C30: from the first bus transfer of hd44780_init onward, in every state *)
(* any sequence of public operations reaches (the states between the       *)
(* callback calls of an operation included), the bus direction is never    *)
(* OUT while RW is high; write_bus is called only with RW low and          *)
(* direction OUT, read_bus only with direction IN and RW high.             *)
(***************************************************************************)
C30_NoBusContention ==
  /\ ~Contention(hw)
  /\ \A i \in 1..Len(trace) :
       /\ ~Contention(trace[i])
       /\ (trace[i].cb = "write_bus") =>
            (trace[i].RW = PIN_RESET /\ trace[i].dir = GPIO_DIR_OUT)
       /\ (trace[i].cb = "read_bus") =>
            (trace[i].RW = PIN_SET /\ trace[i].dir = GPIO_DIR_IN)

C30_Witness ==
  /\ op.name = "write_text" /\ op.prev # "init" /\ ret = HD44780_OK
  /\ Indices("read_bus") # {} /\ Indices("write_bus") # {}
  /\ trace[1].dir = GPIO_DIR_OUT /\ trace[1].RW = PIN_RESET
  /\ hw.dir = GPIO_DIR_OUT /\ hw.RW = PIN_RESET

(***************************************************************************)
(* Nibble pairs                                                            *)
(***************************************************************************)
(* The enable pulses of the last operation after the raw preamble, as log
   indices: each write_bus or read_bus call is one pulse. *)
Pulses ==
  SelectSeq([i \in 1..Len(trace) |-> i],
            LAMBDA i : i > PreambleEnd /\ trace[i].cb \in {"write_bus", "read_bus"})

(* The pulses come two by two: the same kind of transfer, the same RS and
   RW, and no busy-wait or delay between the two. *)
PairedPulses ==
  LET p == Pulses
  IN  /\ Len(p) % 2 = 0
      /\ \A j \in 1..(Len(p) \div 2) :
           LET i1 == p[2 * j - 1]
               i2 == p[2 * j]
           IN  /\ trace[i1].cb = trace[i2].cb
               /\ trace[i1].RS = trace[i2].RS
               /\ trace[i1].RW = trace[i2].RW
               /\ \A i \in i1..i2 :
                    trace[i].cb \notin {"wait_for_busy_flag_clear", "delay_ms"}

(***************************************************************************)
(* C31: in 4-bit mode, after the mode select of hd44780_init, every public *)
(* operation, whether it returns OK or TIMEOUT and in any order, sends its *)
(* E pulses only in complete pairs (both nibbles of one byte, the same RS  *)
(* and RW), and no sequence of operations and timeouts leaves the chip     *)
(* with half a byte received.                                              *)
(***************************************************************************)
C31_NibblePairs ==
  (ctx.interface = INTERFACE_4BIT /\ op.name # "none") =>
    /\ PairedPulses
    /\ chip.DL = 0 /\ chip.phase = 0

C31_Witness ==
  /\ ctx.interface = INTERFACE_4BIT /\ Polling
  /\ op.prev = "init" /\ op.prevRet = HD44780_OK
  /\ op.name = "write_text" /\ ret = HD44780_TIMEOUT
  /\ Len(Pulses) > 2 * PollCeiling
  /\ chip.phase = 0

(***************************************************************************)
(* C32: after hd44780_init returns OK, for every glyph-map length 0..8,    *)
(* the chip's address counter selects DDRAM, so a hd44780_write_text or    *)
(* hd44780_disp_char issued directly after init (no set_pos or clear in    *)
(* between) stores its bytes in display memory and not in CGRAM.           *)
(***************************************************************************)
C32_InitLeavesDdramSelected ==
  /\ (op.name = "init" /\ ret = HD44780_OK) => (chip.cg = 0)
  /\ (/\ op.prev = "init" /\ op.prevRet = HD44780_OK
      /\ op.name \in {"write_text", "disp_char"}) => (op.preCG = 0)

(***************************************************************************)
(* C33: for every index value 0..255 passed to hd44780_def_char, the one   *)
(* instruction it issues is a CGRAM-address-set (a byte in 0x40..0x7F) and *)
(* the 8 pattern bytes go to CGRAM of that slot only: it issues no         *)
(* DDRAM-address-set or other instruction and never overwrites the glyph   *)
(* of a different slot.                                                    *)
(***************************************************************************)
C33_DefCharStaysInSlot ==
  (op.name = "def_char" /\ op.prev = "init" /\ op.failAt = 0) =>
    /\ Len(FramedWrites) = BITMAP_ROWS + 1
    /\ FramedWrites[1].rs = PIN_RESET
    /\ FramedWrites[1].byte \in REG_CGRAM_ADDR_SET..(REG_DDRAM_ADDR_SET - 1)
    /\ \A j \in 2..Len(FramedWrites) : FramedWrites[j].rs = PIN_SET
    /\ \A a \in 0..(CGRAM_SIZE - 1) :
         chip.cgram[a] = IF a \div BITMAP_ROWS = op.a
                           THEN MapEntry(op.b).character_bitmap[(a % BITMAP_ROWS) + 1]
                           ELSE 0

(***************************************************************************)
(* Cursor positions and DDRAM addresses                                    *)
(***************************************************************************)
(* The operation was hd44780_set_pos with a row and a column of the
   configured geometry, the busy-wait reporting OK. *)
ValidPos(o) ==
  /\ o.name = "set_pos" /\ o.failAt = 0
  /\ o.a < ctx.number_of_lines /\ o.b < ctx.column_width

(* The geometry is one the header names. *)
DocumentedGeometry ==
  ctx.number_of_lines \in DocumentedLines /\ ctx.column_width \in Widths

(* The cells of the geometry are no more than the chip's display memory. *)
FitsDdram == ctx.number_of_lines * ctx.column_width <= DDRAM_ONE_LINE_END + 1

(* This step is a valid hd44780_set_pos: it issues one instruction, bit 7
   and a 7-bit address; and if the step before was a valid hd44780_set_pos
   to another position, the chip's address differs from the one it had. *)
SetPosDistinct ==
  /\ ValidPos(op') =>
       /\ ret' = HD44780_OK
       /\ Len(FramedWrites') = 1
       /\ FramedWrites'[1].rs = PIN_RESET
       /\ FramedWrites'[1].byte = REG_DDRAM_ADDR_SET + ClaimedOffset(op'.a) + op'.b
       /\ ClaimedOffset(op'.a) + op'.b < REG_DDRAM_ADDR_SET
       /\ chip'.cg = 0
       /\ chip'.ac = FramedWrites'[1].byte - REG_DDRAM_ADDR_SET
  /\ (ValidPos(op) /\ ValidPos(op') /\ <<op.a, op.b>> # <<op'.a, op'.b>>) =>
       (chip'.ac # chip.ac)

(***************************************************************************)
(* C34 (as amended): for every geometry the header names (1, 2 or 4 lines  *)
(* of 8, 10, 16, 20 or 40 columns) whose cells fit the 80 bytes of DDRAM,  *)
(* that is all but 4 lines of 40 columns, hd44780_set_pos maps distinct    *)
(* valid (row, column) pairs to distinct DDRAM addresses, each address     *)
(* fits in 7 bits, and the issued byte has bit 7 set as the                *)
(* DDRAM-address-set opcode only.                                          *)
(***************************************************************************)
C34_SetPosInjective ==
  [][(DocumentedGeometry /\ FitsDdram) => SetPosDistinct]_vars

C34_Witness ==
  /\ ctx.number_of_lines = 2 /\ ctx.column_width = 40
  /\ ValidPos(op) /\ op.prev = "set_pos" /\ op.prevRet = HD44780_OK
  /\ op.a = 1 /\ op.b = 39 /\ chip.ac = DDRAM_LINE_END_2

(* C34 as stated: the same for every geometry the header names, 4 lines of
   40 columns included. *)
C34_Original == [][DocumentedGeometry => SetPosDistinct]_vars

(***************************************************************************)
(* C35: after a successful init with a glyph map of n <= 8 entries and no  *)
(* later def_char, rendering a multi-byte character with code point c that *)
(* occurs in the map writes the data byte i, the lowest map index whose    *)
(* code point is c, and CGRAM slot i holds exactly the 8 bitmap bytes of   *)
(* map entry i: the glyph shown for c is the bitmap of the first map entry *)
(* for c.                                                                  *)
(***************************************************************************)
C35_GlyphShownIsFirstEntry ==
  OneMappedCharacter =>
    LET i == SlotIndex(Utf8Chars(op.text)[1])
    IN  /\ DataBytes = <<i>>
        /\ \A r \in 1..BITMAP_ROWS :
             chip.cgram[i * BITMAP_ROWS + r - 1]
               = ctx.custom_chars_map[i + 1].character_bitmap[r]

====
